---- MODULE Spec2Model ----
(***************************************************************************)
(* Coordination core of the crawler / summariser fleets: heartbeat         *)
(* liveness tracking, leader selection among the three configured leaders, *)
(* the state manager's task table and dispatch queue, task dispatch to     *)
(* workers with stall and worker-loss recovery, and pull replication.      *)
(*                                                                         *)
(* Wall-clock time is abstracted to the comparisons the code makes:        *)
(*   stale[n]      peers p with  now - active_nodes[p].timestamp >         *)
(*                 HEARTBEAT_TIMEOUT  at node n;                           *)
(*   in_cooldown   now - leader_selection_time <= leader_selection_cooldown*)
(*   a processing task may be found stalled at any later monitor pass.     *)
(* A running node heartbeats every HEARTBEAT_INTERVAL (5 s), far below the *)
(* 30 s timeout, so a peer turns stale only while it is not sending, and   *)
(* by then every running leader has been heard (guard of Timeout).         *)
(***************************************************************************)
EXTENDS Integers, Sequences, FiniteSets, TLC

\* ------------------------------------------------------------ configuration
PRIMARY_LEADER == "leader-primary"
BACKUP_LEADERS == <<"leader-backup-1", "leader-backup-2">>
WORKERS == <<"worker-1", "worker-2", "worker-3">>

\* bounds of the model
NumWorkers == 2
MaxTasks == 2
MaxVersion == 9
MaxCrashes == 2
NumUrls == 1
MaxImports == 2
MaxLoops == 2
MaxSilence == 95

max_missed_heartbeats == 3
\* config.py, in seconds
HEARTBEAT_INTERVAL == 5
HEARTBEAT_TIMEOUT == 30

Backups == {BACKUP_LEADERS[i] : i \in 1..Len(BACKUP_LEADERS)}
Leaders == {PRIMARY_LEADER} \cup Backups
Workers == {WORKERS[i] : i \in 1..NumWorkers}
Nodes == Leaders \cup Workers
TaskIds == 1..MaxTasks
Urls == 1..NumUrls
\* a request without a "url" field
NoUrl == 0
None == "none"

ONLINE == "online"
OFFLINE == "offline"
PENDING == "pending"
PROCESSING == "processing"
COMPLETED == "completed"
FAILED == "failed"

VARIABLES
    up,                           \* node -> the process is running
    crashes,                      \* number of crashes so far (bounds the run)
    \* ---- leader view (SummarizerLeader / CrawlerLeader fields)
    is_active_leader,
    current_leader_id,
    primary_leader_failed,
    leader_selection_in_progress,
    in_cooldown,                  \* now - leader_selection_time <= cooldown
    selection_timer,              \* the one-shot threading.Timer is pending
    sync_loops,                   \* running _state_sync_loop threads
    state_sync_thread,            \* the handle refers to a live thread
    worker_status,
    worker_assignments,
    \* ---- HeartbeatService fields
    active_nodes,
    failed_nodes,
    missed_heartbeats,
    stale,
    hb_leader_id,
    \* ---- StateManager fields
    sm_is_leader,
    tasks,
    task_queue,
    completed_urls,
    state_version,
    \* ---- worker node
    w_current_leader,
    running,                      \* worker -> task id -> threads working on it
    \* ---- history
    next_task_id,                 \* generate_task_id: ids handed out so far + 1
    dispatches,                   \* task id -> times a worker accepted it
    task_age,                     \* sync intervals a task has lived through
    synced,                       \* followers that pulled in this interval
    pulls,                        \* leader -> parity of its answered state pulls
    response,                     \* last answer to a client POST
    \* ---- time and callbacks of a leader's HeartbeatService
    silence,                      \* leader -> peer -> seconds since the time
                                  \* stamp of the peer's record
    since_check,                  \* seconds since the leader's liveness pass
    last_callback,                \* leader -> peer -> status of the last
                                  \* status_callback call, None before it
    callback_repeated,            \* a callback repeated the previous status
                                  \* of its peer, or a first one said ONLINE
    \* ---- crawler fleet: StateManager.tasks of each crawler leader
    crawl_tasks,
    \* ---- history of the crawler fleet
    crawl_state,                  \* the last body of GET /state (at first that
                                  \* of a leader just started)
    crawl_imports,                \* crawler leader -> its imports of that body
    \* ---- crawler fleet: the primary leader and the workers
    crawl_up,                     \* crawler worker -> the process is running
    crawl_worker_status,          \* the leader's worker_status
    crawl_assignments,            \* the leader's worker_assignments
    crawl_hb,                     \* the leader's heartbeat record of a worker
    crawl_running,                \* crawler worker -> tasks with a thread
    crawl_request,                \* the /crawl request being served
    crawl_response,               \* results of the last /crawl answer
    in_flight,                    \* leader -> the GET /state answer its sync
                                  \* loop holds and has not imported yet
    stall_scan                    \* leader -> the task its stall scan has
                                  \* found stalled and not reset yet (0: none)

leaderVars == <<is_active_leader, current_leader_id, primary_leader_failed,
                leader_selection_in_progress, in_cooldown, selection_timer,
                sync_loops, state_sync_thread>>
workerTrack == <<worker_status, worker_assignments>>
hbVars == <<active_nodes, failed_nodes, missed_heartbeats, stale, hb_leader_id>>
smVars == <<sm_is_leader, tasks, task_queue, completed_urls, state_version>>
workerVars == <<w_current_leader, running>>
histVars == <<next_task_id, dispatches, task_age, synced, pulls, response>>
hbHist == <<silence, since_check, last_callback, callback_repeated>>
crawlFleet == <<crawl_up, crawl_worker_status, crawl_assignments, crawl_hb,
                crawl_running, crawl_request, crawl_response>>
crawlVars == <<crawl_tasks, crawl_state, crawl_imports, crawlFleet>>
vars == <<up, crashes, leaderVars, workerTrack, hbVars, smVars, workerVars,
          histVars, hbHist, crawlVars, in_flight, stall_scan>>

\* ------------------------------------------------------------ helpers
RECURSIVE SeqRemove(_, _)
\* list.remove(x): drops the first occurrence of x
SeqRemove(s, x) ==
    IF s = <<>> THEN <<>>
    ELSE IF Head(s) = x THEN Tail(s)
    ELSE <<Head(s)>> \o SeqRemove(Tail(s), x)

SeqHas(s, x) == \E i \in 1..Len(s) : s[i] = x
SeqCount(s, x) == Cardinality({i \in 1..Len(s) : s[i] = x})

RECURSIVE SetToSeq(_)
\* the elements of a set of task ids in dict (insertion = id) order
SetToSeq(S) ==
    IF S = {} THEN <<>>
    ELSE LET m == CHOOSE x \in S : \A y \in S : x <= y
         IN <<m>> \o SetToSeq(S \ {m})

Put(f, k, v) == [x \in DOMAIN f \cup {k} |-> IF x = k THEN v ELSE f[x]]

\* ------------------------------------------------------------ StateManager
NewTask(u) == [status |-> PENDING, assigned_worker |-> None, url |-> u,
               result |-> None]

NewStateManager(leader) ==
    [is_leader |-> leader, tasks |-> <<>>, queue |-> <<>>,
     completed_urls |-> {}, version |-> 0]

SM(n) == [is_leader |-> sm_is_leader[n], tasks |-> tasks[n],
          queue |-> task_queue[n], completed_urls |-> completed_urls[n],
          version |-> state_version[n]]

\* the tasks whose status is pending, in dict order
PendingSeq(t) == SetToSeq({x \in DOMAIN t : t[x].status = PENDING})

\* add_task finds an already completed task with the same URL
AlreadyProcessed(sm, task) ==
    /\ task.url # NoUrl
    /\ task.url \in sm.completed_urls
    /\ \E e \in DOMAIN sm.tasks :
          sm.tasks[e].url = task.url /\ sm.tasks[e].status = COMPLETED

add_task(sm, id, task) ==
    IF AlreadyProcessed(sm, task) THEN sm
    ELSE [sm EXCEPT !.tasks = Put(@, id, task),
                    !.queue = IF sm.is_leader THEN Append(@, id) ELSE @,
                    !.version = @ + 1]

\* the task object is shared with the table: a caller's  task.status = ...
\* changes the table entry at once, without a version bump
SetFields(sm, id, st, w) ==
    [sm EXCEPT !.tasks[id].status = st, !.tasks[id].assigned_worker = w]

\* get_next_task: [sm |-> the manager afterwards, task |-> the id or 0]
get_next_task(sm) ==
    IF ~sm.is_leader \/ sm.queue = <<>> THEN [sm |-> sm, task |-> 0]
    ELSE LET id == Head(sm.queue)
             popped == [sm EXCEPT !.queue = Tail(@)]
         IN IF id \in DOMAIN sm.tasks
            THEN [sm |-> [popped EXCEPT !.tasks[id].status = PROCESSING,
                                        !.version = @ + 1],
                  task |-> id]
            ELSE [sm |-> popped, task |-> 0]

update_task(sm, id, st, res) ==
    IF id \notin DOMAIN sm.tasks THEN sm
    ELSE [sm EXCEPT !.tasks[id].status = st,
                    !.tasks[id].result = IF res # None THEN res ELSE @,
                    !.completed_urls =
                        IF st = COMPLETED /\ sm.tasks[id].url # NoUrl
                        THEN @ \cup {sm.tasks[id].url} ELSE @,
                    !.version = @ + 1]

assign_task(sm, id, w) ==
    IF id \notin DOMAIN sm.tasks THEN sm
    ELSE [sm EXCEPT !.tasks[id].assigned_worker = w,
                    !.tasks[id].status = PROCESSING,
                    !.version = @ + 1]

\* task.dict(): the fields as JSON carries them (None travels as null)
JsonNull == "null"
ToJson(v) == IF v = None THEN JsonNull ELSE v
\* a parse that keeps the JSON null as it is
FromJson_KeepsNull(v) == v

FromJson(v) == IF v = JsonNull THEN None ELSE v

task_dict(task) ==
    [status |-> task.status, assigned_worker |-> ToJson(task.assigned_worker),
     url |-> task.url, result |-> ToJson(task.result)]

\* SummaryTask(**task_data)
SummaryTask(data) ==
    [status |-> data.status, assigned_worker |-> FromJson(data.assigned_worker),
     url |-> data.url, result |-> FromJson(data.result)]

\* export_state: the tasks as dicts, the completed URLs as a list
export_state(sm) ==
    [version |-> sm.version,
     tasks |-> [id \in DOMAIN sm.tasks |-> task_dict(sm.tasks[id])],
     completed_urls |-> SetToSeq(sm.completed_urls)]

\* the table import_state rebuilds from the dicts
ImportedTasks(st) == [id \in DOMAIN st.tasks |-> SummaryTask(st.tasks[id])]

import_state(sm, st) ==
    IF st.version <= sm.version THEN sm
    ELSE [sm EXCEPT !.version = st.version,
                    !.tasks = ImportedTasks(st),
                    !.completed_urls =
                        {st.completed_urls[i] : i \in DOMAIN st.completed_urls},
                    !.queue = IF sm.is_leader THEN PendingSeq(ImportedTasks(st))
                              ELSE @]

\* a promotion that flips the role and leaves the queue as it is
sm_become_leader_KeepsQueue(sm) == [sm EXCEPT !.is_leader = TRUE]

sm_become_leader(sm) ==
    IF sm.is_leader THEN sm
    ELSE [sm EXCEPT !.is_leader = TRUE, !.queue = PendingSeq(sm.tasks)]

sm_become_follower(sm) == [sm EXCEPT !.is_leader = FALSE]

\* ------------------------------------------------------------ construction
\* a constructor that makes every leader active
InitActive_Everyone(n) == n \in Leaders

\* SummarizerLeader.__init__ followed by start(), per field
InitActive(n) == n = PRIMARY_LEADER
InitCurrentLeader(n) == IF n = PRIMARY_LEADER THEN PRIMARY_LEADER ELSE None
\* start(): a leader that is not active starts the state sync loop
InitSyncLoops(n) == IF InitActive(n) THEN 0 ELSE 1
NoMisses == [p \in Nodes |-> 0]
\* no status callback made yet
NoCallbacks == [p \in Nodes |-> None]
\* the crawler leader's heartbeat service has not heard of a worker
NoRecord == [active |-> FALSE, failed |-> FALSE, stale |-> FALSE, missed |-> 0]
\* no /crawl request received yet
NoRequest == [urls |-> <<>>, task_ids |-> <<>>, phase |-> "idle",
              late |-> FALSE]
\* a worker with no task thread
Idle == [t \in TaskIds |-> 0]
\* no client request answered yet
NoResponse == [code |-> 0, location |-> None, task_id |-> 0]

\* no answer of a GET /state is waiting to be imported
NoPull == [pending |-> FALSE,
           state |-> [version |-> 0, tasks |-> <<>>, completed_urls |-> <<>>]]

InitFleet(started) ==
    /\ up = [n \in Nodes |-> n \in started]
    /\ crashes = 0
    /\ is_active_leader = [n \in Leaders |-> InitActive(n)]
    /\ current_leader_id = [n \in Leaders |-> InitCurrentLeader(n)]
    /\ primary_leader_failed = [n \in Leaders |-> FALSE]
    /\ leader_selection_in_progress = [n \in Leaders |-> FALSE]
    /\ in_cooldown = [n \in Leaders |-> FALSE]
    /\ selection_timer = [n \in Leaders |-> FALSE]
    /\ sync_loops = [n \in Leaders |-> InitSyncLoops(n)]
    /\ state_sync_thread = [n \in Leaders |-> ~InitActive(n)]
    /\ worker_status = [n \in Leaders |-> [w \in Workers |-> OFFLINE]]
    /\ worker_assignments = [n \in Leaders |-> [w \in Workers |-> <<>>]]
    /\ active_nodes = [n \in Leaders |-> {}]
    /\ failed_nodes = [n \in Leaders |-> {}]
    /\ missed_heartbeats = [n \in Leaders |-> NoMisses]
    /\ stale = [n \in Leaders |-> {}]
    /\ hb_leader_id = [n \in Nodes |-> PRIMARY_LEADER]
    /\ sm_is_leader = [n \in Leaders |-> InitActive(n)]
    /\ tasks = [n \in Leaders |-> <<>>]
    /\ task_queue = [n \in Leaders |-> <<>>]
    /\ completed_urls = [n \in Leaders |-> {}]
    /\ state_version = [n \in Leaders |-> 0]
    /\ w_current_leader = [w \in Workers |-> PRIMARY_LEADER]
    /\ running = [w \in Workers |-> Idle]
    /\ next_task_id = 1
    /\ dispatches = [t \in TaskIds |-> 0]
    /\ task_age = [t \in TaskIds |-> 0]
    /\ synced = {}
    /\ pulls = [n \in Leaders |-> 0]
    /\ response = NoResponse
    /\ silence = [n \in Leaders |-> NoMisses]
    /\ since_check = [n \in Leaders |-> 0]
    /\ last_callback = [n \in Leaders |-> NoCallbacks]
    /\ callback_repeated = FALSE
    /\ crawl_tasks = [n \in Leaders |-> <<>>]
    /\ crawl_state = [tasks |-> <<>>]
    /\ crawl_imports = [n \in Leaders |-> 0]
    /\ crawl_up = [w \in Workers |-> TRUE]
    /\ crawl_worker_status = [w \in Workers |-> OFFLINE]
    /\ crawl_assignments = [w \in Workers |-> <<>>]
    /\ crawl_hb = [w \in Workers |-> NoRecord]
    /\ crawl_running = [w \in Workers |-> {}]
    /\ crawl_request = NoRequest
    /\ crawl_response = <<>>
    /\ in_flight = [n \in Leaders |-> NoPull]
    /\ stall_scan = [n \in Leaders |-> 0]

\* the whole configured fleet has been started
Init == InitFleet(Nodes)

\* one primary and the workers, no backup leader started
InitTasks == InitFleet({PRIMARY_LEADER} \cup Workers)

\* the three leaders alone
InitLeaders == InitFleet(Leaders)

SetSM(n, sm) ==
    /\ sm.version <= MaxVersion
    /\ sm_is_leader' = [sm_is_leader EXCEPT ![n] = sm.is_leader]
    /\ tasks' = [tasks EXCEPT ![n] = sm.tasks]
    /\ task_queue' = [task_queue EXCEPT ![n] = sm.queue]
    /\ completed_urls' = [completed_urls EXCEPT ![n] = sm.completed_urls]
    /\ state_version' = [state_version EXCEPT ![n] = sm.version]

\* ------------------------------------------------------------ HeartbeatService
is_node_active(n, p) == p \in active_nodes[n] /\ p \notin failed_nodes[n]

\* who a node's heartbeat loop sends to (_send_heartbeats)
SendsTo(src, dst) ==
    /\ src # dst
    /\ IF src \in Workers THEN dst = hb_leader_id[src] ELSE TRUE

\* every running leader other than n has a fresh record at n
HeardAllRunning(n) ==
    \A q \in Leaders \ {n} :
        up[q] => q \in active_nodes[n] /\ q \notin stale[n]

\* the silence of a peer that no longer sends to n exceeds HEARTBEAT_TIMEOUT
Timeout(n, p) ==
    /\ UNCHANGED <<crawlVars, hbHist, in_flight, stall_scan>>
    /\ n \in Leaders /\ up[n]
    /\ p \in active_nodes[n] \ stale[n]
    /\ ~(up[p] /\ SendsTo(p, n))
    /\ HeardAllRunning(n)
    /\ stale' = [stale EXCEPT ![n] = @ \cup {p}]
    /\ UNCHANGED <<up, crashes, leaderVars, workerTrack, active_nodes,
                   failed_nodes, missed_heartbeats, hb_leader_id, smVars,
                   workerVars, histVars>>

\* the peers leader n holds a record of, live or failed
Tracked(n) == active_nodes[n] \cup failed_nodes[n]

\* HEARTBEAT_INTERVAL seconds pass, the sleep of one heartbeat loop: every
\* record is that much older; those older than HEARTBEAT_TIMEOUT are what the
\* next liveness pass finds stale
Tick ==
    /\ \A n \in Leaders : \A p \in Tracked(n) :
          silence[n][p] + HEARTBEAT_INTERVAL <= MaxSilence
    /\ silence' = [n \in Leaders |-> [p \in Nodes |->
          IF p \in Tracked(n) THEN silence[n][p] + HEARTBEAT_INTERVAL
          ELSE silence[n][p]]]
    /\ since_check' = [n \in Leaders |-> HEARTBEAT_INTERVAL]
    /\ stale' = [n \in Leaders |->
          {p \in active_nodes[n] : silence'[n][p] > HEARTBEAT_TIMEOUT}]
    /\ UNCHANGED <<up, crashes, leaderVars, workerTrack, active_nodes,
                   failed_nodes, missed_heartbeats, hb_leader_id, smVars,
                   workerVars, histVars, last_callback, callback_repeated,
                   crawlVars, in_flight, stall_scan>>

\* ------------------------------------------------------------ leader node
\* task reset used by the recovery paths: the status and worker fields are
\* changed on the shared task object, then add_task re-adds it to the queue
ResetTask(sm, id) ==
    LET m == SetFields(sm, id, PENDING, None)
    IN add_task(m, id, m.tasks[id])

RECURSIVE ReassignTasks(_, _)
\* _reassign_worker_tasks: the loop over the failed worker's assignments
ReassignTasks(sm, ids) ==
    IF ids = <<>> THEN sm
    ELSE LET id == Head(ids)
             next == IF id \in DOMAIN sm.tasks
                        /\ sm.tasks[id].status = PROCESSING
                     THEN ResetTask(sm, id) ELSE sm
         IN ReassignTasks(next, Tail(ids))

RECURSIVE ReassignWorkers(_, _, _)
\* the OFFLINE callbacks of one liveness pass, in the order ws
ReassignWorkers(sm, assign, ws) ==
    IF ws = <<>> THEN sm
    ELSE ReassignWorkers(ReassignTasks(sm, assign[Head(ws)]), assign, Tail(ws))

Orders(S) ==
    {s \in [1..Cardinality(S) -> S] : \A i, j \in DOMAIN s : i # j => s[i] # s[j]}

\* peers that the next liveness pass declares failed
NewlyFailed(n) ==
    {p \in active_nodes[n] \cap stale[n] :
        missed_heartbeats[n][p] + 1 >= max_missed_heartbeats}

\* a handler that starts a timer without looking at the cooldown
ArmsTimer_NoCooldown(n) ==
    /\ ~primary_leader_failed[n]
    /\ ~is_active_leader[n]
    /\ ~leader_selection_in_progress[n]

\* handle_node_status_change(primary, OFFLINE) arms the selection timer
ArmsTimer(n) ==
    /\ ~primary_leader_failed[n]
    /\ ~is_active_leader[n]
    /\ ~leader_selection_in_progress[n]
    /\ ~in_cooldown[n]

\* HeartbeatService._check_for_failures with its OFFLINE callbacks
\* (SummarizerLeader.handle_node_status_change)
CheckForFailures(n) ==
    /\ UNCHANGED <<crawlVars, silence, in_flight, stall_scan>>
    /\ n \in Leaders /\ up[n]
    /\ since_check' = [since_check EXCEPT ![n] = 0]
    /\ last_callback' = [last_callback EXCEPT ![n] =
          [p \in Nodes |-> IF p \in NewlyFailed(n) THEN OFFLINE ELSE @[p]]]
    /\ callback_repeated' =
          (callback_repeated
             \/ \E p \in NewlyFailed(n) : last_callback[n][p] = OFFLINE)
    /\ LET nf == NewlyFailed(n)
           pf == PRIMARY_LEADER \in nf /\ n # PRIMARY_LEADER
           arm == pf /\ ArmsTimer(n)
           wf == nf \cap Workers
       IN /\ active_nodes' = [active_nodes EXCEPT ![n] = @ \ nf]
          /\ failed_nodes' = [failed_nodes EXCEPT ![n] = @ \cup nf]
          /\ stale' = [stale EXCEPT ![n] = @ \ nf]
          /\ missed_heartbeats' = [missed_heartbeats EXCEPT ![n] =
                [p \in Nodes |->
                    IF p \in nf THEN 0
                    ELSE IF p \in active_nodes[n] \cap stale[n] THEN @[p] + 1
                    ELSE IF p \in active_nodes[n] THEN 0
                    ELSE @[p]]]
          /\ primary_leader_failed' =
                [primary_leader_failed EXCEPT ![n] = @ \/ pf]
          /\ leader_selection_in_progress' =
                [leader_selection_in_progress EXCEPT ![n] = @ \/ arm]
          /\ in_cooldown' = [in_cooldown EXCEPT ![n] = @ \/ arm]
          /\ selection_timer' = [selection_timer EXCEPT ![n] = @ \/ arm]
          /\ worker_status' = [worker_status EXCEPT ![n] =
                [w \in Workers |-> IF w \in wf THEN OFFLINE ELSE @[w]]]
          /\ IF is_active_leader[n] /\ wf # {}
             THEN /\ \E ord \in Orders(wf) :
                        SetSM(n, ReassignWorkers(SM(n), worker_assignments[n], ord))
                  /\ worker_assignments' = [worker_assignments EXCEPT ![n] =
                        [w \in Workers |-> IF w \in wf THEN <<>> ELSE @[w]]]
             ELSE UNCHANGED <<smVars, worker_assignments>>
    /\ UNCHANGED <<up, crashes, is_active_leader, current_leader_id, sync_loops,
                   state_sync_thread, hb_leader_id, workerVars, histVars>>

\* a receive_heartbeat that makes the callback on every heartbeat
Recovered_Always(src, dst) == TRUE

\* receive_heartbeat finds the sender in failed_nodes: "recovered"
Recovered(src, dst) == src \in failed_nodes[dst]

\* POST /heartbeat on a leader: HeartbeatService.receive_heartbeat, its ONLINE
\* callback, and the route's worker status update
LeaderReceivesHeartbeat(src, dst) ==
    LET recovered == Recovered(src, dst)
        primaryBack == /\ recovered /\ src = PRIMARY_LEADER
                       /\ dst # PRIMARY_LEADER /\ primary_leader_failed[dst]
    IN /\ active_nodes' = [active_nodes EXCEPT ![dst] = @ \cup {src}]
       /\ stale' = [stale EXCEPT ![dst] = @ \ {src}]
       /\ missed_heartbeats' = [missed_heartbeats EXCEPT ![dst][src] = 0]
       /\ failed_nodes' = [failed_nodes EXCEPT ![dst] = @ \ {src}]
       /\ hb_leader_id' = [hb_leader_id EXCEPT ![dst] =
             IF src \in Leaders /\ hb_leader_id[src] # @
             THEN hb_leader_id[src] ELSE @]
       /\ primary_leader_failed' =
             [primary_leader_failed EXCEPT ![dst] = @ /\ ~primaryBack]
       /\ leader_selection_in_progress' =
             [leader_selection_in_progress EXCEPT ![dst] = @ /\ ~primaryBack]
       /\ worker_status' = [worker_status EXCEPT ![dst] =
             [w \in Workers |-> IF w = src THEN ONLINE ELSE @[w]]]
       /\ silence' = [silence EXCEPT ![dst][src] = 0]
       /\ last_callback' = [last_callback EXCEPT ![dst][src] =
             IF Recovered(src, dst) THEN ONLINE ELSE @]
       /\ callback_repeated' =
             (callback_repeated
                \/ (Recovered(src, dst) /\ last_callback[dst][src] # OFFLINE))
       /\ UNCHANGED <<is_active_leader, current_leader_id, in_cooldown,
                      selection_timer, sync_loops, state_sync_thread,
                      worker_assignments, smVars, workerVars, since_check>>

\* POST /heartbeat on a worker: the heartbeat service and the node both adopt
\* the leader id a leader reports
WorkerReceivesHeartbeat(src, dst) ==
    /\ hb_leader_id' = [hb_leader_id EXCEPT ![dst] = hb_leader_id[src]]
    /\ w_current_leader' = [w_current_leader EXCEPT ![dst] = hb_leader_id[src]]
    /\ UNCHANGED <<leaderVars, workerTrack, active_nodes, failed_nodes,
                   missed_heartbeats, stale, smVars, running, hbHist>>

\* one heartbeat of src's loop reaches dst
Heartbeat(src, dst) ==
    /\ UNCHANGED <<crawlVars, in_flight, stall_scan>>
    /\ up[src] /\ up[dst] /\ SendsTo(src, dst)
    /\ IF dst \in Leaders THEN LeaderReceivesHeartbeat(src, dst)
       ELSE src \in Leaders /\ WorkerReceivesHeartbeat(src, dst)
    /\ UNCHANGED <<up, crashes, histVars>>

\* ------------------------------------------------------------ leader selection
\* the other backups this node's heartbeat table holds as active
ActiveBackups(n) == {b \in Backups \ {n} : is_node_active(n, b)}

\* a selection rule under which the first backup also waits for the others
ShouldBecomeLeader_OnlyWhenAlone(n) == ActiveBackups(n) = {}

\* a selection rule that skips the look at backup 1
ShouldBecomeLeader_NoPriority(n) == TRUE

\* _select_new_leader: the "Make selection" block
ShouldBecomeLeader(n) ==
    IF ActiveBackups(n) = {} THEN TRUE
    ELSE IF n = BACKUP_LEADERS[1] THEN TRUE
    ELSE ~is_node_active(n, BACKUP_LEADERS[1])

\* a _select_new_leader that does not look at the flags or at the primary
SelectionProceeds_NoRecheck(n) == ~is_active_leader[n]

\* _select_new_leader gets past its two early returns
SelectionProceeds(n) ==
    /\ primary_leader_failed[n] /\ ~is_active_leader[n]
    /\ ~is_node_active(n, PRIMARY_LEADER)

\* POST /leader-change reaches m (a running leader other than the sender)
Hears(m, n) == m # n /\ up[m]

\* become_follower on m starts a sync loop unless its handle is a live thread
StartsSync(m) == is_active_leader[m] /\ ~state_sync_thread[m]

\* n wins: become_leader() and _announce_leadership(), whose POST
\* /leader-change every other running leader handles (workers have no such
\* route and answer 404)
BecomeLeaderAndAnnounce(n) ==
    /\ is_active_leader' = [m \in Leaders |->
          IF m = n THEN TRUE ELSE IF Hears(m, n) THEN FALSE
          ELSE is_active_leader[m]]
    /\ current_leader_id' = [m \in Leaders |->
          IF m = n \/ Hears(m, n) THEN n ELSE current_leader_id[m]]
    /\ sm_is_leader' = [m \in Leaders |->
          IF m = n THEN TRUE
          ELSE IF Hears(m, n) /\ is_active_leader[m] THEN FALSE
          ELSE sm_is_leader[m]]
    /\ task_queue' = [task_queue EXCEPT ![n] = sm_become_leader(SM(n)).queue]
    /\ sync_loops' = [m \in Leaders |->
          IF Hears(m, n) /\ StartsSync(m) THEN sync_loops[m] + 1
          ELSE sync_loops[m]]
    /\ state_sync_thread' = [m \in Leaders |->
          IF m = n THEN FALSE
          ELSE IF Hears(m, n) /\ is_active_leader[m] THEN TRUE
          ELSE state_sync_thread[m]]
    /\ hb_leader_id' = [m \in Nodes |->
          IF m = n \/ (m \in Leaders /\ Hears(m, n)) THEN n
          ELSE hb_leader_id[m]]
    /\ UNCHANGED <<tasks, completed_urls, state_version>>

\* a handler that decides by the role the node has, not by the announced id
AnnouncedIsSelf_ByRole(m, id) == is_active_leader[m]

\* leader_change: "if new_leader_id == self.node_id"
AnnouncedIsSelf(m, id) == id = m

\* POST /leader-change {leader_id: id} handled by leader m, from whoever
\* sends it: the id is recorded, then become_leader() or become_follower(),
\* then the heartbeat service is told
LeaderChange(m, id) ==
    /\ UNCHANGED <<crawlVars, hbHist, in_flight, stall_scan>>
    /\ m \in Leaders /\ up[m] /\ id \in Leaders
    /\ sync_loops[m] < MaxLoops
    /\ current_leader_id' = [current_leader_id EXCEPT ![m] = id]
    /\ hb_leader_id' = [hb_leader_id EXCEPT ![m] = id]
    /\ IF AnnouncedIsSelf(m, id)
       THEN /\ is_active_leader' = [is_active_leader EXCEPT ![m] = TRUE]
            /\ IF is_active_leader[m] THEN UNCHANGED <<smVars, state_sync_thread>>
               ELSE /\ SetSM(m, sm_become_leader(SM(m)))
                    /\ state_sync_thread' =
                          [state_sync_thread EXCEPT ![m] = FALSE]
            /\ UNCHANGED sync_loops
       ELSE /\ is_active_leader' = [is_active_leader EXCEPT ![m] = FALSE]
            /\ IF is_active_leader[m]
               THEN /\ SetSM(m, sm_become_follower(SM(m)))
                    /\ sync_loops' = [sync_loops EXCEPT ![m] =
                          IF state_sync_thread[m] THEN @ ELSE @ + 1]
                    /\ state_sync_thread' =
                          [state_sync_thread EXCEPT ![m] = TRUE]
               ELSE UNCHANGED <<smVars, sync_loops, state_sync_thread>>
    /\ UNCHANGED <<up, crashes, primary_leader_failed,
                   leader_selection_in_progress, in_cooldown, selection_timer,
                   workerTrack, active_nodes, failed_nodes, missed_heartbeats,
                   stale, workerVars, histVars>>

\* the selection timer fires: SummarizerLeader._select_new_leader
SelectNewLeader(n) ==
    /\ UNCHANGED <<crawlVars, hbHist, in_flight, stall_scan>>
    /\ n \in Leaders /\ up[n] /\ selection_timer[n]
    /\ selection_timer' = [selection_timer EXCEPT ![n] = FALSE]
    /\ leader_selection_in_progress' =
          [leader_selection_in_progress EXCEPT ![n] = FALSE]
    /\ primary_leader_failed' = [primary_leader_failed EXCEPT ![n] =
          IF @ /\ ~is_active_leader[n] /\ is_node_active(n, PRIMARY_LEADER)
          THEN FALSE ELSE @]
    /\ IF SelectionProceeds(n) /\ ShouldBecomeLeader(n)
       THEN BecomeLeaderAndAnnounce(n)
       ELSE UNCHANGED <<is_active_leader, current_leader_id, sync_loops,
                        state_sync_thread, hb_leader_id, smVars>>
    /\ UNCHANGED <<up, crashes, in_cooldown, workerTrack, active_nodes,
                   failed_nodes, missed_heartbeats, stale, workerVars,
                   histVars>>

\* leader_selection_cooldown seconds have passed since leader_selection_time
CooldownExpires(n) ==
    /\ UNCHANGED <<crawlVars, hbHist, in_flight, stall_scan>>
    /\ n \in Leaders /\ up[n]
    /\ in_cooldown[n] /\ ~selection_timer[n]
    /\ in_cooldown' = [in_cooldown EXCEPT ![n] = FALSE]
    /\ UNCHANGED <<up, crashes, is_active_leader, current_leader_id,
                   primary_leader_failed, leader_selection_in_progress,
                   selection_timer, sync_loops, state_sync_thread, workerTrack,
                   hbVars, smVars, workerVars, histVars>>

\* ------------------------------------------------------------ processes
\* a leader process dies: its in-memory state is gone; the fields are put
\* back to what __init__ and start() set, which is what a restart begins with
CrashLeaderWithin(n, budget) ==
    /\ UNCHANGED <<crawlVars, callback_repeated>>
    /\ in_flight' = [in_flight EXCEPT ![n] = NoPull]
    /\ stall_scan' = [stall_scan EXCEPT ![n] = 0]
    /\ silence' = [silence EXCEPT ![n] = NoMisses]
    /\ since_check' = [since_check EXCEPT ![n] = 0]
    /\ last_callback' = [last_callback EXCEPT ![n] = NoCallbacks]
    /\ n \in Leaders /\ up[n]
    /\ crashes < budget
    /\ up' = [up EXCEPT ![n] = FALSE]
    /\ crashes' = crashes + 1
    /\ is_active_leader' = [is_active_leader EXCEPT ![n] = InitActive(n)]
    /\ current_leader_id' = [current_leader_id EXCEPT ![n] = InitCurrentLeader(n)]
    /\ primary_leader_failed' = [primary_leader_failed EXCEPT ![n] = FALSE]
    /\ leader_selection_in_progress' =
          [leader_selection_in_progress EXCEPT ![n] = FALSE]
    /\ in_cooldown' = [in_cooldown EXCEPT ![n] = FALSE]
    /\ selection_timer' = [selection_timer EXCEPT ![n] = FALSE]
    /\ sync_loops' = [sync_loops EXCEPT ![n] = InitSyncLoops(n)]
    /\ state_sync_thread' = [state_sync_thread EXCEPT ![n] = ~InitActive(n)]
    /\ worker_status' = [worker_status EXCEPT ![n] = [w \in Workers |-> OFFLINE]]
    /\ worker_assignments' =
          [worker_assignments EXCEPT ![n] = [w \in Workers |-> <<>>]]
    /\ active_nodes' = [active_nodes EXCEPT ![n] = {}]
    /\ failed_nodes' = [failed_nodes EXCEPT ![n] = {}]
    /\ missed_heartbeats' = [missed_heartbeats EXCEPT ![n] = NoMisses]
    /\ stale' = [stale EXCEPT ![n] = {}]
    /\ hb_leader_id' = [hb_leader_id EXCEPT ![n] = PRIMARY_LEADER]
    /\ sm_is_leader' = [sm_is_leader EXCEPT ![n] = InitActive(n)]
    /\ tasks' = [tasks EXCEPT ![n] = <<>>]
    /\ task_queue' = [task_queue EXCEPT ![n] = <<>>]
    /\ completed_urls' = [completed_urls EXCEPT ![n] = {}]
    /\ state_version' = [state_version EXCEPT ![n] = 0]
    /\ synced' = synced \ {n}
    /\ UNCHANGED <<workerVars, next_task_id, dispatches, task_age, pulls,
                   response>>

CrashLeader(n) == CrashLeaderWithin(n, MaxCrashes)

\* the process is started again (run_leader.py): __init__ and start()
RestartLeader(n) ==
    /\ UNCHANGED <<crawlVars, hbHist, in_flight, stall_scan>>
    /\ n \in Leaders /\ ~up[n]
    /\ up' = [up EXCEPT ![n] = TRUE]
    /\ UNCHANGED <<crashes, leaderVars, workerTrack, hbVars, smVars,
                   workerVars, histVars>>

\* a worker process dies with its task threads; a restart begins from
\* SummarizerWorkerNode.__init__
CrashWorker(w) ==
    /\ UNCHANGED <<crawlVars, hbHist, in_flight, stall_scan>>
    /\ w \in Workers /\ up[w]
    /\ crashes < MaxCrashes
    /\ up' = [up EXCEPT ![w] = FALSE]
    /\ crashes' = crashes + 1
    /\ running' = [running EXCEPT ![w] = Idle]
    /\ w_current_leader' = [w_current_leader EXCEPT ![w] = PRIMARY_LEADER]
    /\ hb_leader_id' = [hb_leader_id EXCEPT ![w] = PRIMARY_LEADER]
    /\ UNCHANGED <<leaderVars, workerTrack, active_nodes, failed_nodes,
                   missed_heartbeats, stale, smVars, histVars>>

RestartWorker(w) ==
    /\ UNCHANGED <<crawlVars, hbHist, in_flight, stall_scan>>
    /\ w \in Workers /\ ~up[w]
    /\ up' = [up EXCEPT ![w] = TRUE]
    /\ UNCHANGED <<crashes, leaderVars, workerTrack, hbVars, smVars,
                   workerVars, histVars>>

\* ------------------------------------------------------------ public endpoint
\* config.get_leader_by_id: the configured leader, or none
get_leader_by_id(id) == IF id \in Leaders THEN id ELSE None

\* how POST /summarize (POST /crawl) is answered by leader n; the Location of
\* a redirect is the named leader's host and port with the same path
PostAnswer(n) ==
    IF is_active_leader[n] THEN [code |-> 200, location |-> None]
    ELSE IF current_leader_id[n] # None
            /\ get_leader_by_id(current_leader_id[n]) # None
         THEN [code |-> 307, location |-> current_leader_id[n]]
         ELSE [code |-> 503, location |-> None]

\* ------------------------------------------------------------ tasks on a leader
\* POST /summarize: a follower redirects; the active leader creates the task,
\* adds it and answers with the generated id
Summarize(n, u) ==
    /\ UNCHANGED <<crawlVars, hbHist, in_flight, stall_scan>>
    /\ n \in Leaders /\ up[n]
    /\ IF ~is_active_leader[n]
       THEN /\ response' = [code |-> PostAnswer(n).code,
                            location |-> PostAnswer(n).location,
                            task_id |-> 0]
            /\ UNCHANGED <<smVars, next_task_id>>
       ELSE /\ next_task_id <= MaxTasks
            /\ SetSM(n, add_task(SM(n), next_task_id, NewTask(u)))
            /\ next_task_id' = next_task_id + 1
            /\ response' = [code |-> 200, location |-> None,
                            task_id |-> next_task_id]
    /\ UNCHANGED <<up, crashes, leaderVars, workerTrack, hbVars, workerVars,
                   dispatches, task_age, synced, pulls>>

\* the list _find_available_worker builds: the workers marked online, in the
\* order of the worker_status dict (the order of config.WORKERS)
available_workers(n) ==
    SelectSeq([i \in 1..NumWorkers |-> WORKERS[i]],
              LAMBDA w : worker_status[n][w] = ONLINE)

\* list.sort(key = number of assignments): a stable sort, an element goes
\* behind the elements whose key is not larger
RECURSIVE SortByAssignments(_, _)
SortByAssignments(n, ws) ==
    IF ws = <<>> THEN <<>>
    ELSE LET rest == SortByAssignments(n, SubSeq(ws, 1, Len(ws) - 1))
             x == ws[Len(ws)]
             load(w) == Len(worker_assignments[n][w])
             k == Cardinality({i \in DOMAIN rest : load(rest[i]) <= load(x)})
         IN SubSeq(rest, 1, k) \o <<x>> \o SubSeq(rest, k + 1, Len(rest))

\* a choice that takes the last element of the sorted list
find_available_worker_Last(n) ==
    IF available_workers(n) = <<>> THEN None
    ELSE LET sorted == SortByAssignments(n, available_workers(n))
         IN sorted[Len(sorted)]

\* _find_available_worker: the first of the online workers sorted by their
\* number of assignments
find_available_worker(n) ==
    IF available_workers(n) = <<>> THEN None
    ELSE Head(SortByAssignments(n, available_workers(n)))

\* process_task_queue on the active leader (the monitor loop, or the thread a
\* request starts), with _send_task_to_worker and, when the POST /task fails,
\* _handle_task_failure
ProcessTaskQueue(n) ==
    /\ UNCHANGED <<crawlVars, hbHist, in_flight, stall_scan>>
    /\ n \in Leaders /\ up[n] /\ is_active_leader[n]
    /\ task_queue[n] # <<>>
    /\ LET r == get_next_task(SM(n))
           id == r.task
           w == find_available_worker(n)
       IN IF id = 0
          THEN /\ SetSM(n, r.sm)
               /\ UNCHANGED <<worker_assignments, running, dispatches>>
          ELSE IF w = None
          THEN /\ LET m == [r.sm EXCEPT !.tasks[id].status = PENDING]
                  IN SetSM(n, add_task(m, id, m.tasks[id]))
               /\ UNCHANGED <<worker_assignments, running, dispatches>>
          ELSE IF up[w]
          THEN /\ SetSM(n, assign_task(r.sm, id, w))
               /\ worker_assignments' =
                     [worker_assignments EXCEPT ![n][w] = Append(@, id)]
               /\ running' = [running EXCEPT ![w][id] = @ + 1]
               /\ dispatches' = [dispatches EXCEPT ![id] = @ + 1]
          ELSE /\ SetSM(n, ResetTask(assign_task(r.sm, id, w), id))
               /\ worker_assignments' =
                     [worker_assignments EXCEPT ![n][w] =
                         SeqRemove(Append(@, id), id)]
               /\ UNCHANGED <<running, dispatches>>
    /\ UNCHANGED <<up, crashes, leaderVars, worker_status, hbVars,
                   w_current_leader, next_task_id, task_age, synced, pulls,
                   response>>

\* _check_stalled_tasks finds task t processing for longer than the threshold
CheckStalledTasks(n, t) ==
    /\ UNCHANGED <<crawlVars, hbHist, in_flight, stall_scan>>
    /\ n \in Leaders /\ up[n] /\ is_active_leader[n]
    /\ t \in DOMAIN tasks[n] /\ tasks[n][t].status = PROCESSING
    /\ LET w == tasks[n][t].assigned_worker
       IN /\ SetSM(n, ResetTask(SM(n), t))
          /\ worker_assignments' =
                IF w \in Workers
                THEN [worker_assignments EXCEPT ![n][w] = SeqRemove(@, t)]
                ELSE worker_assignments
    /\ UNCHANGED <<up, crashes, leaderVars, worker_status, hbVars, workerVars,
                   histVars>>

\* _check_stalled_tasks, first half: the scan reads task t as processing for
\* longer than the threshold
StallScanFinds(n, t) ==
    /\ UNCHANGED <<crawlVars, hbHist, in_flight>>
    /\ n \in Leaders /\ up[n] /\ is_active_leader[n]
    /\ stall_scan[n] = 0
    /\ t \in DOMAIN tasks[n] /\ tasks[n][t].status = PROCESSING
    /\ stall_scan' = [stall_scan EXCEPT ![n] = t]
    /\ UNCHANGED <<up, crashes, leaderVars, workerTrack, hbVars, smVars,
                   workerVars, histVars>>

\* _check_stalled_tasks, second half: the reset of the task the scan found,
\* with the assigned worker read at that moment
StallScanResets(n) ==
    /\ UNCHANGED <<crawlVars, hbHist, in_flight>>
    /\ n \in Leaders /\ up[n] /\ stall_scan[n] # 0
    /\ stall_scan[n] \in DOMAIN tasks[n]
    /\ stall_scan' = [stall_scan EXCEPT ![n] = 0]
    /\ LET t == stall_scan[n]
           w == tasks[n][t].assigned_worker
       IN /\ SetSM(n, ResetTask(SM(n), t))
          /\ worker_assignments' =
                IF w \in Workers
                THEN [worker_assignments EXCEPT ![n][w] = SeqRemove(@, t)]
                ELSE worker_assignments
    /\ UNCHANGED <<up, crashes, leaderVars, worker_status, hbVars, workerVars,
                   histVars>>

\* POST /worker/task_completed on leader n for task t with the given result
\* (worker_assignments afterwards; the state manager part is update_task)
TaskCompletedAssignments(n, t) ==
    LET w == tasks[n][t].assigned_worker
    IN IF w \in Workers
       THEN [worker_assignments EXCEPT ![n][w] = SeqRemove(@, t)]
       ELSE worker_assignments

\* what a worker posts to /worker/task_completed: the engine's result, or
\* notify_task_failure's {"error": ..., "status": "failed"}
ReportResult(ok) == IF ok THEN "summary" ELSE "error"

\* a task thread of worker w ends (process_task): it reports to the leader
\* the worker currently knows; nobody retries a report that does not arrive
WorkerFinishes(w, t, ok) ==
    /\ UNCHANGED <<crawlVars, hbHist, in_flight, stall_scan>>
    /\ w \in Workers /\ up[w] /\ running[w][t] > 0
    /\ running' = [running EXCEPT ![w][t] = @ - 1]
    /\ LET n == w_current_leader[w]
       IN IF up[n] /\ t \in DOMAIN tasks[n]
          THEN /\ SetSM(n, update_task(SM(n), t, COMPLETED, ReportResult(ok)))
               /\ worker_assignments' = TaskCompletedAssignments(n, t)
          ELSE UNCHANGED <<smVars, worker_assignments>>
    /\ UNCHANGED <<up, crashes, leaderVars, worker_status, hbVars,
                   w_current_leader, histVars>>

\* ------------------------------------------------------------ state sync
\* one pass of a _state_sync_loop thread of b: the while condition, then
\* sync_with_leader (GET /state answers 403 unless the peer is active)
StateSyncIteration(b) ==
    /\ UNCHANGED <<crawlVars, hbHist, in_flight, stall_scan>>
    /\ b \in Leaders /\ up[b] /\ sync_loops[b] > 0
    /\ IF is_active_leader[b] \/ current_leader_id[b] = None
       THEN /\ sync_loops' = [sync_loops EXCEPT ![b] = @ - 1]
            /\ \E tracked \in BOOLEAN :
                  /\ tracked => state_sync_thread[b]
                  /\ sync_loops[b] = 1 => (tracked <=> state_sync_thread[b])
                  /\ state_sync_thread' = [state_sync_thread EXCEPT ![b] =
                                              @ /\ ~tracked]
            /\ UNCHANGED <<smVars, pulls>>
       ELSE /\ LET l == get_leader_by_id(current_leader_id[b])
               IN IF l # None /\ up[l] /\ is_active_leader[l]
                  THEN /\ SetSM(b, import_state(SM(b), export_state(SM(l))))
                       /\ pulls' = [pulls EXCEPT ![b] = 1 - @]
                  ELSE UNCHANGED <<smVars, pulls>>
            /\ UNCHANGED <<sync_loops, state_sync_thread>>
    /\ synced' = synced \cup {b}
    /\ UNCHANGED <<up, crashes, is_active_leader, current_leader_id,
                   primary_leader_failed, leader_selection_in_progress,
                   in_cooldown, selection_timer, workerTrack, hbVars,
                   workerVars, next_task_id, dispatches, task_age, response>>

\* the first half of a pass of b's _state_sync_loop: the while condition
\* holds and sync_with_leader's GET /state is answered by the active leader
SyncRequest(b) ==
    /\ UNCHANGED <<crawlVars, hbHist, stall_scan>>
    /\ b \in Leaders /\ up[b] /\ sync_loops[b] > 0
    /\ ~is_active_leader[b] /\ current_leader_id[b] # None
    /\ ~in_flight[b].pending
    /\ LET l == get_leader_by_id(current_leader_id[b])
       IN /\ l # None /\ up[l] /\ is_active_leader[l]
          /\ in_flight' = [in_flight EXCEPT ![b] =
                [pending |-> TRUE, state |-> export_state(SM(l))]]
    /\ UNCHANGED <<up, crashes, leaderVars, workerTrack, hbVars, smVars,
                   workerVars, histVars>>

\* the second half: sync_with_leader hands the answer to import_state
SyncImport(b) ==
    /\ UNCHANGED <<crawlVars, hbHist, stall_scan>>
    /\ b \in Leaders /\ up[b] /\ in_flight[b].pending
    /\ SetSM(b, import_state(SM(b), in_flight[b].state))
    /\ in_flight' = [in_flight EXCEPT ![b] = NoPull]
    /\ UNCHANGED <<up, crashes, leaderVars, workerTrack, hbVars, workerVars,
                   histVars>>

\* the tasks in flight in n's table
InFlight(n) ==
    {t \in DOMAIN tasks[n] : tasks[n][t].status \in {PENDING, PROCESSING}}

\* sync_interval seconds pass on the running primary: every live sync loop
\* has made a pass in them. A task in flight at the start of the interval
\* has age 1, one in flight a whole interval ago has age 2
SyncIntervalElapses ==
    /\ UNCHANGED <<crawlVars, hbHist, in_flight, stall_scan>>
    /\ up[PRIMARY_LEADER]
    /\ \A b \in Leaders : up[b] /\ sync_loops[b] > 0 => b \in synced
    /\ \E t \in TaskIds : task_age[t] < 2 /\ (task_age[t] = 1 \/ t \in InFlight(PRIMARY_LEADER))
    /\ task_age' = [t \in TaskIds |->
          IF task_age[t] >= 1 THEN 2
          ELSE IF t \in InFlight(PRIMARY_LEADER) THEN 1 ELSE 0]
    /\ synced' = {}
    /\ UNCHANGED <<up, crashes, leaderVars, workerTrack, hbVars, smVars,
                   workerVars, next_task_id, dispatches, pulls, response>>

\* ------------------------------------------------------------ crawler fleet
\* the summariser fleet's variables, which the crawler fleet never touches
summarizerVars == <<up, crashes, leaderVars, workerTrack, hbVars, smVars,
                    workerVars, histVars, hbHist, in_flight, stall_scan>>

\* the result a crawler worker reports, and the one /worker/task_failed builds
CrawlResult == "markdown"
CrawlError == "error"

\* CrawlTask(task_id, url, ...) as the /crawl handler builds it, w being the
\* worker assign_task_to_worker has then written on it (None: no worker took it)
CrawlTask(u, w) == [status |-> PENDING, assigned_worker |-> w, url |-> u,
                    result |-> None]

\* StateManager.add_task of the crawler: the entry under the id is overwritten
crawl_add_task(t, id, task) == Put(t, id, task)

\* StateManager.update_task of the crawler
crawl_update_task(t, id, st, res) ==
    IF id \notin DOMAIN t THEN t
    ELSE [t EXCEPT ![id].status = st,
                   ![id].result = IF res # None THEN res ELSE @]

\* one entry of the exported list: the task's dict with its id
crawl_task_dict(id, task) ==
    [task_id |-> id, status |-> task.status,
     assigned_worker |-> ToJson(task.assigned_worker), url |-> task.url,
     result |-> ToJson(task.result)]

\* StateManager.export_state of the crawler: the list of the tasks' dicts
\* under the key "tasks"
crawl_export_state(t) ==
    LET ids == SetToSeq(DOMAIN t)
    IN [tasks |-> [i \in DOMAIN ids |-> crawl_task_dict(ids[i], t[ids[i]])]]

\* StateManager.import_state of the crawler: the table is replaced by the
\* listed tasks, whatever it held
crawl_import_state(t, st) ==
    [id \in {st.tasks[i].task_id : i \in DOMAIN st.tasks} |->
        LET data == CHOOSE d \in {st.tasks[i] : i \in DOMAIN st.tasks} :
                        d.task_id = id
        IN [status |-> data.status,
            assigned_worker |-> FromJson(data.assigned_worker),
            url |-> data.url, result |-> FromJson(data.result)]]

\* POST /crawl with one URL on crawler leader n
CrawlAddTask(n, id, u, w) ==
    /\ n \in Leaders /\ id \in TaskIds
    /\ crawl_tasks' = [crawl_tasks EXCEPT
                          ![n] = crawl_add_task(@, id, CrawlTask(u, w))]
    /\ UNCHANGED <<summarizerVars, crawl_state, crawl_imports, crawlFleet>>

\* POST /worker/task_completed (ok) or /worker/task_failed on crawler leader n
CrawlUpdateTask(n, id, ok) ==
    /\ n \in Leaders /\ id \in DOMAIN crawl_tasks[n]
    /\ crawl_tasks' = [crawl_tasks EXCEPT ![n] =
          IF ok THEN crawl_update_task(@, id, COMPLETED, CrawlResult)
          ELSE crawl_update_task(@, id, FAILED, CrawlError)]
    /\ UNCHANGED <<summarizerVars, crawl_state, crawl_imports, crawlFleet>>

\* GET /state on crawler leader n
CrawlExportState(n) ==
    /\ n \in Leaders
    /\ crawl_state' = crawl_export_state(crawl_tasks[n])
    /\ crawl_imports' = [m \in Leaders |-> 0]
    /\ UNCHANGED <<summarizerVars, crawl_tasks, crawlFleet>>

\* import_state(state) on crawler leader n with the body last fetched
CrawlImportState(n) ==
    /\ n \in Leaders
    /\ crawl_imports[n] < MaxImports
    /\ crawl_tasks' = [crawl_tasks EXCEPT
                          ![n] = crawl_import_state(@, crawl_state)]
    /\ crawl_imports' = [crawl_imports EXCEPT ![n] = @ + 1]
    /\ UNCHANGED <<summarizerVars, crawl_state, crawlFleet>>

\* ---- the crawler's primary leader with its workers
\* the URLs a /crawl request may list
CrawlUrls == 1..(NumUrls + 1)
\* the request bodies: lists of URLs
CrawlRequests == UNION {[1..k -> CrawlUrls] : k \in 1..MaxTasks}

\* the primary's task table
CrawlTable == crawl_tasks[PRIMARY_LEADER]

\* generate_task_id: an id no task has
CrawlFreshId == CHOOSE id \in TaskIds \ DOMAIN CrawlTable :
                   \A x \in TaskIds \ DOMAIN CrawlTable : id <= x

\* _find_available_worker draws from these with random.choice
CrawlOnlineWorkers == {w \in Workers : crawl_worker_status[w] = ONLINE}

\* POST /crawl on the active leader, up to the loop over the URLs
CrawlUrlsReceived(urls) ==
    /\ crawl_request.phase \in {"idle", "answered"}
    /\ urls \in CrawlRequests
    /\ Len(urls) <= Cardinality(TaskIds \ DOMAIN CrawlTable)
    /\ crawl_request' = [urls |-> urls, task_ids |-> <<>>,
                         phase |-> "creating", late |-> FALSE]
    /\ UNCHANGED <<summarizerVars, crawl_tasks, crawl_state, crawl_imports,
                   crawl_up, crawl_worker_status, crawl_assignments, crawl_hb,
                   crawl_running, crawl_response>>

\* one turn of the loop of crawl_urls: add_task and assign_task_to_worker for
\* the next URL, w being the worker random.choice picks; the task is sent once
\* and a failed or missing send leaves it as it is
CrawlCreateTask(w) ==
    /\ crawl_request.phase = "creating"
    /\ IF CrawlOnlineWorkers = {} THEN w = None ELSE w \in CrawlOnlineWorkers
    /\ LET id == CrawlFreshId
           u == crawl_request.urls[Len(crawl_request.task_ids) + 1]
           sent == w # None /\ crawl_up[w]
           ids == Append(crawl_request.task_ids, id)
       IN /\ crawl_tasks' = [crawl_tasks EXCEPT ![PRIMARY_LEADER] =
                crawl_add_task(@, id, CrawlTask(u, IF sent THEN w ELSE None))]
          /\ crawl_assignments' =
                IF sent THEN [crawl_assignments EXCEPT ![w] = Append(@, id)]
                ELSE crawl_assignments
          /\ crawl_running' =
                IF sent THEN [crawl_running EXCEPT ![w] = @ \cup {id}]
                ELSE crawl_running
          /\ crawl_request' = [crawl_request EXCEPT
                !.task_ids = ids,
                !.phase = IF Len(ids) = Len(crawl_request.urls)
                          THEN "waiting" ELSE @]
    /\ UNCHANGED <<summarizerVars, crawl_state, crawl_imports, crawl_up,
                   crawl_worker_status, crawl_hb, crawl_response>>

\* wait_for_tasks: every task of the request is completed, failed or unknown
CrawlAllDone ==
    \A i \in DOMAIN crawl_request.task_ids :
        LET id == crawl_request.task_ids[i]
        IN id \in DOMAIN CrawlTable
              => CrawlTable[id].status \in {COMPLETED, FAILED}

\* the result wait_for_tasks hands back for a task: None when it is unfinished
\* or unknown, or finished without a result
CrawlWaitResult(id) ==
    IF id \in DOMAIN CrawlTable /\ CrawlTable[id].status \in {COMPLETED, FAILED}
    THEN CrawlTable[id].result ELSE None

\* a CrawlResponse whose url has no default taken from the request
CrawlEntry_NoUrlDefault(i) ==
    LET id == crawl_request.task_ids[i]
    IN IF CrawlWaitResult(id) = CrawlResult
       THEN [markdown |-> CrawlResult, url |-> CrawlTable[id].url,
             map |-> <<"link">>]
       ELSE [markdown |-> "", url |-> 0, map |-> <<>>]

\* the CrawlResponse crawl_urls builds for the i-th task: the fields of the
\* worker's result (its url is the task's), and the defaults for the rest
CrawlEntry(i) ==
    LET id == crawl_request.task_ids[i]
    IN IF CrawlWaitResult(id) = CrawlResult
       THEN [markdown |-> CrawlResult, url |-> CrawlTable[id].url,
             map |-> <<"link">>]
       ELSE [markdown |-> "", url |-> crawl_request.urls[i], map |-> <<>>]

\* the 60 seconds of wait_for_tasks have passed
CrawlDeadline ==
    /\ crawl_request.phase = "waiting" /\ ~crawl_request.late
    /\ crawl_request' = [crawl_request EXCEPT !.late = TRUE]
    /\ UNCHANGED <<summarizerVars, crawl_tasks, crawl_state, crawl_imports,
                   crawl_up, crawl_worker_status, crawl_assignments, crawl_hb,
                   crawl_running, crawl_response>>

\* a wait_for_tasks without time budget: it returns only when all is done
CrawlRespond_NoDeadline ==
    /\ crawl_request.phase = "waiting"
    /\ CrawlAllDone
    /\ crawl_response' = [i \in DOMAIN crawl_request.task_ids |-> CrawlEntry(i)]
    /\ crawl_request' = [crawl_request EXCEPT !.phase = "answered"]
    /\ UNCHANGED <<summarizerVars, crawl_tasks, crawl_state, crawl_imports,
                   crawl_up, crawl_worker_status, crawl_assignments, crawl_hb,
                   crawl_running>>

\* a pass of the loop of wait_for_tasks that returns, and the answer of
\* crawl_urls
CrawlRespond ==
    /\ crawl_request.phase = "waiting"
    /\ CrawlAllDone \/ crawl_request.late
    /\ crawl_response' = [i \in DOMAIN crawl_request.task_ids |-> CrawlEntry(i)]
    /\ crawl_request' = [crawl_request EXCEPT !.phase = "answered"]
    /\ UNCHANGED <<summarizerVars, crawl_tasks, crawl_state, crawl_imports,
                   crawl_up, crawl_worker_status, crawl_assignments, crawl_hb,
                   crawl_running>>

\* process_task of crawler worker w ends: send_result_to_leader (ok) or
\* notify_task_failure, and the leader's /worker/task_completed or
\* /worker/task_failed. The leader's event loop serves no route while
\* crawl_urls runs its loop
CrawlWorkerFinishes(w, id, ok) ==
    /\ w \in Workers /\ crawl_up[w] /\ id \in crawl_running[w]
    /\ crawl_request.phase # "creating"
    /\ crawl_running' = [crawl_running EXCEPT ![w] = @ \ {id}]
    /\ crawl_tasks' = [crawl_tasks EXCEPT ![PRIMARY_LEADER] =
          IF ok THEN crawl_update_task(@, id, COMPLETED, CrawlResult)
          ELSE crawl_update_task(@, id, FAILED, CrawlError)]
    /\ crawl_assignments' =
          IF id \in DOMAIN CrawlTable /\ CrawlTable[id].assigned_worker \in Workers
          THEN [crawl_assignments EXCEPT
                   ![CrawlTable[id].assigned_worker] = SeqRemove(@, id)]
          ELSE crawl_assignments
    /\ UNCHANGED <<summarizerVars, crawl_state, crawl_imports, crawl_up,
                   crawl_worker_status, crawl_hb, crawl_request,
                   crawl_response>>

\* a crawler worker process dies with its task threads
CrawlWorkerCrashes(w) ==
    /\ w \in Workers /\ crawl_up[w]
    /\ crawl_up' = [crawl_up EXCEPT ![w] = FALSE]
    /\ crawl_running' = [crawl_running EXCEPT ![w] = {}]
    /\ UNCHANGED <<summarizerVars, crawl_tasks, crawl_state, crawl_imports,
                   crawl_worker_status, crawl_assignments, crawl_hb,
                   crawl_request, crawl_response>>

\* it is started again
CrawlWorkerRestarts(w) ==
    /\ w \in Workers /\ ~crawl_up[w]
    /\ crawl_up' = [crawl_up EXCEPT ![w] = TRUE]
    /\ UNCHANGED <<summarizerVars, crawl_tasks, crawl_state, crawl_imports,
                   crawl_worker_status, crawl_assignments, crawl_hb,
                   crawl_running, crawl_request, crawl_response>>

\* POST /heartbeat of worker w on the crawler leader: receive_heartbeat with
\* its ONLINE callback, and the route's own worker_status update
CrawlHeartbeat(w) ==
    /\ w \in Workers /\ crawl_up[w]
    /\ crawl_request.phase # "creating"
    /\ crawl_hb' = [crawl_hb EXCEPT ![w] =
          [active |-> TRUE, failed |-> FALSE, stale |-> FALSE, missed |-> 0]]
    /\ crawl_worker_status' = [crawl_worker_status EXCEPT ![w] = ONLINE]
    /\ UNCHANGED <<summarizerVars, crawl_tasks, crawl_state, crawl_imports,
                   crawl_up, crawl_assignments, crawl_running, crawl_request,
                   crawl_response>>

\* the silence of a dead crawler worker exceeds HEARTBEAT_TIMEOUT
CrawlTimeout(w) ==
    /\ w \in Workers /\ ~crawl_up[w]
    /\ crawl_hb[w].active /\ ~crawl_hb[w].stale
    /\ crawl_hb' = [crawl_hb EXCEPT ![w].stale = TRUE]
    /\ UNCHANGED <<summarizerVars, crawl_tasks, crawl_state, crawl_imports,
                   crawl_up, crawl_worker_status, crawl_assignments,
                   crawl_running, crawl_request, crawl_response>>

\* the crawler workers the next liveness pass declares failed
CrawlNewlyFailed ==
    {w \in Workers : /\ crawl_hb[w].active /\ crawl_hb[w].stale
                     /\ crawl_hb[w].missed + 1 >= max_missed_heartbeats}

\* _check_for_failures of the crawler leader's heartbeat service, with
\* CrawlerLeader.handle_node_status_change as its OFFLINE callback
CrawlCheckForFailures ==
    /\ \E w \in Workers : crawl_hb[w].active /\ crawl_hb[w].stale
    /\ crawl_hb' = [w \in Workers |->
          IF w \in CrawlNewlyFailed
          THEN [active |-> FALSE, failed |-> TRUE, stale |-> FALSE,
                missed |-> 0]
          ELSE IF crawl_hb[w].active /\ crawl_hb[w].stale
          THEN [crawl_hb[w] EXCEPT !.missed = @ + 1]
          ELSE IF crawl_hb[w].active THEN [crawl_hb[w] EXCEPT !.missed = 0]
          ELSE crawl_hb[w]]
    /\ crawl_worker_status' = [w \in Workers |->
          IF w \in CrawlNewlyFailed THEN OFFLINE ELSE crawl_worker_status[w]]
    /\ UNCHANGED <<summarizerVars, crawl_tasks, crawl_state, crawl_imports,
                   crawl_up, crawl_assignments, crawl_running, crawl_request,
                   crawl_response>>

\* ------------------------------------------------------------ specifications
\* Three leaders, of which at most one crashes and none comes back
CrashOnce(n) == crashes = 0 /\ CrashLeader(n)

NextSingleCrash ==
    \/ \E n \in Leaders : CrashOnce(n)
    \/ \E n, m \in Leaders : Heartbeat(n, m)
    \/ \E n, p \in Leaders : Timeout(n, p)
    \/ \E n \in Leaders : CheckForFailures(n)
    \/ \E n \in Leaders : SelectNewLeader(n)
    \/ \E n \in Leaders : CooldownExpires(n)

\* the heartbeat loop and the armed timer are threads that keep running
FairSingleCrash ==
    /\ \A n, m \in Leaders : WF_vars(Heartbeat(n, m))
    /\ \A n, p \in Leaders : WF_vars(Timeout(n, p))
    /\ \A n \in Leaders : WF_vars(CheckForFailures(n) /\ stale[n] # {})
    /\ \A n \in Leaders : WF_vars(SelectNewLeader(n))

SpecSingleCrash == InitLeaders /\ [][NextSingleCrash]_vars /\ FairSingleCrash

\* Three leaders that are killed one after the other and stay down
NextKills ==
    \/ \E n \in Leaders : CrashLeader(n)
    \/ \E n, m \in Leaders : Heartbeat(n, m)
    \/ \E n, p \in Leaders : Timeout(n, p)
    \/ \E n \in Leaders : CheckForFailures(n)
    \/ \E n \in Leaders : SelectNewLeader(n)
    \/ \E n \in Leaders : CooldownExpires(n)

SpecKills == InitLeaders /\ [][NextKills]_vars /\ FairSingleCrash

\* Three leaders that crash and restart
NextLeaders ==
    \/ \E n \in Leaders : CrashLeader(n)
    \/ \E n \in Leaders : RestartLeader(n)
    \/ \E n, m \in Leaders : Heartbeat(n, m)
    \/ \E n, p \in Leaders : Timeout(n, p)
    \/ \E n \in Leaders : CheckForFailures(n)
    \/ \E n \in Leaders : SelectNewLeader(n)
    \/ \E n \in Leaders : CooldownExpires(n)

SpecLeaders == InitLeaders /\ [][NextLeaders]_vars

\* One active leader (the primary) with the workers: tasks are created,
\* dispatched, reported, found stalled; workers crash and come back
NextTasks ==
    \/ \E u \in Urls \cup {NoUrl} : Summarize(PRIMARY_LEADER, u)
    \/ ProcessTaskQueue(PRIMARY_LEADER)
    \/ \E t \in TaskIds : CheckStalledTasks(PRIMARY_LEADER, t)
    \/ \E w \in Workers, t \in TaskIds, ok \in BOOLEAN : WorkerFinishes(w, t, ok)
    \/ \E n, m \in {PRIMARY_LEADER} \cup Workers : Heartbeat(n, m)
    \/ \E w \in Workers : Timeout(PRIMARY_LEADER, w)
    \/ CheckForFailures(PRIMARY_LEADER)
    \/ \E w \in Workers : CrashWorker(w)
    \/ \E w \in Workers : RestartWorker(w)

SpecTasks == InitTasks /\ [][NextTasks]_vars

\* The same fleet with the stall scan of the monitor loop taken in its two
\* halves, so that the heartbeat thread's OFFLINE callback and the dispatch
\* threads run between them; workers crash
NextStallRace ==
    \/ \E u \in Urls : Summarize(PRIMARY_LEADER, u)
    \/ ProcessTaskQueue(PRIMARY_LEADER)
    \/ \E t \in TaskIds : StallScanFinds(PRIMARY_LEADER, t)
    \/ StallScanResets(PRIMARY_LEADER)
    \/ \E w \in Workers : Heartbeat(w, PRIMARY_LEADER)
    \/ \E w \in Workers : Timeout(PRIMARY_LEADER, w)
    \/ CheckForFailures(PRIMARY_LEADER)
    \/ \E w \in Workers : CrashWorker(w)

SpecStallRace == InitTasks /\ [][NextStallRace]_vars

\* The three leaders with clients: tasks arrive, the followers' sync loops
\* run, one leader crashes and the others elect
NextFailover ==
    \/ NextSingleCrash
    \/ \E n \in Leaders, u \in Urls \cup {NoUrl} : Summarize(n, u)
    \/ \E b \in Leaders : StateSyncIteration(b)
    \/ SyncIntervalElapses

SpecFailover == InitLeaders /\ [][NextFailover]_vars

\* the same fleet with its threads running: the heartbeat loops, the armed
\* timers and the sync loops that start() launched keep making their passes
FairSync ==
    /\ FairSingleCrash
    /\ \A b \in Leaders : WF_vars(StateSyncIteration(b))

SpecSync == InitLeaders /\ [][NextFailover]_vars /\ FairSync

\* A takeover after replication. The operator's and the client's moves come
\* at chosen moments: backup 1 is started late, the primary is killed,
\* restarted and killed again, backup 1 is killed once backup 2 has pulled
\* its table; one worker is started under backup 1, clients talk to the backups
KillPlan == <<PRIMARY_LEADER, PRIMARY_LEADER, BACKUP_LEADERS[1]>>

InitTakeover == InitFleet({PRIMARY_LEADER, BACKUP_LEADERS[2]})

\* the sync thread that start() launches has made its first pass (it does so
\* before the web server accepts a request)
BootSyncDone ==
    \A b \in Leaders : up[b] /\ current_leader_id[b] = None => sync_loops[b] = 0

\* backup 2 holds a copy of backup 1's table with its task in flight
Replicated ==
    /\ tasks[BACKUP_LEADERS[2]] = tasks[BACKUP_LEADERS[1]]
    /\ \E t \in DOMAIN tasks[BACKUP_LEADERS[1]] :
          tasks[BACKUP_LEADERS[1]][t].status = PROCESSING

Kill(n) ==
    /\ crashes < Len(KillPlan) /\ n = KillPlan[crashes + 1]
    /\ crashes = 2 => Replicated
    /\ CrashLeaderWithin(n, Len(KillPlan))

StartLeader(n) ==
    /\ crashes = 1 /\ is_active_leader[BACKUP_LEADERS[2]]
    /\ RestartLeader(n)

StartWorker(w) == is_active_leader[BACKUP_LEADERS[1]] /\ RestartWorker(w)

Submit(n) == n \in Backups /\ \E u \in Urls : Summarize(n, u)

TimerFiresAfterBoot(n) == BootSyncDone /\ SelectNewLeader(n)

NextTakeover ==
    \/ \E n \in Leaders : Kill(n)
    \/ \E n \in Leaders : StartLeader(n)
    \/ StartWorker(WORKERS[1])
    \/ \E n, m \in Leaders \cup {WORKERS[1]} : Heartbeat(n, m)
    \/ \E n \in Leaders, p \in Leaders \cup {WORKERS[1]} : Timeout(n, p)
    \/ \E n \in Leaders : CheckForFailures(n)
    \/ \E n \in Leaders : TimerFiresAfterBoot(n)
    \/ \E n \in Leaders : CooldownExpires(n)
    \/ \E n \in Leaders : Submit(n)
    \/ \E n \in Leaders : ProcessTaskQueue(n)
    \/ \E t \in TaskIds, ok \in BOOLEAN : WorkerFinishes(WORKERS[1], t, ok)
    \/ \E b \in Leaders : StateSyncIteration(b)

SpecTakeover == InitTakeover /\ [][NextTakeover]_vars

\* The primary and one backup, one of which may crash (a crashed primary may
\* be restarted), with /leader-change posted to either with any leader's id
\* at any moment once the loops started at boot have made their first pass,
\* and the sync loops making their passes
LeaderChangeAfterBoot(m, id) == BootSyncDone /\ LeaderChange(m, id)

NextLeaderChange ==
    \/ NextSingleCrash
    \/ RestartLeader(PRIMARY_LEADER)
    \/ \E m, id \in Leaders : LeaderChangeAfterBoot(m, id)
    \/ \E b \in Leaders : StateSyncIteration(b)

SpecLeaderChange == InitTakeover /\ [][NextLeaderChange]_vars

\* The primary's heartbeat service with the clock: the workers send or fall
\* silent, time passes in steps of HEARTBEAT_INTERVAL, and the loop makes one
\* liveness pass per sleep
LoopCheck(n) == since_check[n] >= HEARTBEAT_INTERVAL /\ CheckForFailures(n)

NextHeartbeatClock ==
    \/ Tick
    \/ LoopCheck(PRIMARY_LEADER)
    \/ \E n, m \in {PRIMARY_LEADER} \cup Workers : Heartbeat(n, m)
    \/ \E w \in Workers : CrashWorker(w)
    \/ \E w \in Workers : RestartWorker(w)

SpecHeartbeatClock == InitTasks /\ [][NextHeartbeatClock]_vars

\* The state managers of two crawler leaders under every order of the calls
\* their routes and a state pull make on them; /crawl is served by the primary
CrawlManagers == {PRIMARY_LEADER, BACKUP_LEADERS[1]}

NextCrawlState ==
    \/ \E id \in TaskIds, u \in Urls, w \in {None, WORKERS[1]} :
          CrawlAddTask(PRIMARY_LEADER, id, u, w)
    \/ \E n \in CrawlManagers, id \in TaskIds, ok \in BOOLEAN :
          CrawlUpdateTask(n, id, ok)
    \/ \E n \in CrawlManagers : CrawlExportState(n)
    \/ \E n \in CrawlManagers : CrawlImportState(n)

SpecCrawlState == InitLeaders /\ [][NextCrawlState]_vars

\* The crawler's primary leader serving /crawl requests with workers that
\* crash and come back; time passes, threads take their turns
NextCrawlFleet ==
    \/ \E urls \in CrawlRequests : CrawlUrlsReceived(urls)
    \/ \E w \in Workers \cup {None} : CrawlCreateTask(w)
    \/ CrawlDeadline
    \/ CrawlRespond
    \/ \E w \in Workers, id \in TaskIds, ok \in BOOLEAN :
          CrawlWorkerFinishes(w, id, ok)
    \/ \E w \in Workers : CrawlWorkerCrashes(w)
    \/ \E w \in Workers : CrawlWorkerRestarts(w)
    \/ \E w \in Workers : CrawlHeartbeat(w)
    \/ \E w \in Workers : CrawlTimeout(w)
    \/ CrawlCheckForFailures

FairCrawlFleet ==
    /\ WF_vars(\E w \in Workers \cup {None} : CrawlCreateTask(w))
    /\ WF_vars(CrawlDeadline)
    /\ WF_vars(CrawlRespond)
    /\ \A w \in Workers : WF_vars(CrawlHeartbeat(w))
    /\ \A w \in Workers : WF_vars(CrawlTimeout(w))
    /\ WF_vars(CrawlCheckForFailures)
    /\ \A w \in Workers, id \in TaskIds :
          WF_vars(\E ok \in BOOLEAN : CrawlWorkerFinishes(w, id, ok))

SpecCrawlFleet == InitLeaders /\ [][NextCrawlFleet]_vars /\ FairCrawlFleet

\* ------------------------------------------------------------ claims
Backup1 == BACKUP_LEADERS[1]
Backup2 == BACKUP_LEADERS[2]
ActiveLeaders == {n \in Leaders : up[n] /\ is_active_leader[n]}

\* One leader has crashed, every running leader has declared it failed (or
\* never tracked it) and no selection timer is pending
Stabilised ==
    /\ crashes = 1
    /\ \A n \in Leaders : up[n] =>
          /\ ~selection_timer[n]
          /\ \A p \in Leaders : ~up[p] => p \notin active_nodes[n]

\* C1: after a single leader crash, once failure detection and the selection
\* timers have run, at most one running leader has is_active_leader = true
C1_AtMostOneActiveLeader == Stabilised => Cardinality(ActiveLeaders) <= 1

\* the primary crashed, both backups ran their selection, backup 1 leads
C1_Witness ==
    /\ Stabilised /\ ~up[PRIMARY_LEADER]
    /\ ActiveLeaders = {Backup1}
    /\ primary_leader_failed[Backup2] /\ in_cooldown[Backup2]

\* C2: if the primary crashes while both backups run and backup 1 tracks the
\* primary's heartbeats, eventually backup 1 is active and backup 2, not
\* active, names backup 1 as current leader
C2_Backup1TakesOver ==
    (/\ ~up[PRIMARY_LEADER] /\ up[Backup1] /\ up[Backup2]
     /\ PRIMARY_LEADER \in active_nodes[Backup1])
    ~> (/\ is_active_leader[Backup1]
        /\ current_leader_id[Backup2] = Backup1
        /\ ~is_active_leader[Backup2])

\* the state scenario 4 asks /health to show
C2_Witness ==
    /\ ~up[PRIMARY_LEADER] /\ up[Backup1] /\ up[Backup2]
    /\ is_active_leader[Backup1]
    /\ current_leader_id[Backup2] = Backup1 /\ ~is_active_leader[Backup2]

\* C3: if the primary and backup 1 are down while backup 2 runs and has been
\* tracking the primary's heartbeats, eventually backup 2 is the active leader
C3_Backup2TakesOver ==
    (/\ ~up[PRIMARY_LEADER] /\ ~up[Backup1] /\ up[Backup2]
     /\ PRIMARY_LEADER \in active_nodes[Backup2])
    ~> is_active_leader[Backup2]

\* the selection timer of n fires in this step
TimerFires(n) == selection_timer[n] /\ ~selection_timer'[n] /\ up'[n]

\* C5: when a backup's timer fires with the primary still failed, backup 1
\* becomes active, and backup 2 becomes active only if it holds no live
\* heartbeat record of backup 1; backup 2 never becomes active otherwise
C5_PriorityRule ==
    [][/\ (TimerFires(Backup1) /\ SelectionProceeds(Backup1))
            => is_active_leader'[Backup1]
       /\ (TimerFires(Backup2) /\ SelectionProceeds(Backup2)
            /\ is_node_active(Backup2, Backup1))
            => ~is_active_leader'[Backup2]
       /\ (~is_active_leader[Backup2] /\ is_active_leader'[Backup2])
            => ~is_node_active(Backup2, Backup1)]_vars

\* backup 2's timer has fired with backup 1 alive and leading: it stood back
C5_Witness ==
    /\ up[Backup2] /\ primary_leader_failed[Backup2]
    /\ ~selection_timer[Backup2] /\ ~is_active_leader[Backup2]
    /\ is_node_active(Backup2, Backup1)
    /\ up[Backup1] /\ is_active_leader[Backup1]

\* C6: while a backup is running as active leader, a running primary is not
\* active
C6_ReturnedPrimaryIsPassive ==
    \A b \in Backups :
        (up[b] /\ is_active_leader[b] /\ up[PRIMARY_LEADER])
            => ~is_active_leader[PRIMARY_LEADER]

\* C7: a follower backup answers a client POST with a redirect to the primary
\* while the primary is the active leader, and any leader answers 503 only
\* when it knows no current leader
C7_FollowerRedirects ==
    /\ \A b \in Backups :
          (/\ up[b] /\ ~is_active_leader[b]
           /\ up[PRIMARY_LEADER] /\ is_active_leader[PRIMARY_LEADER])
          => PostAnswer(b) = [code |-> 307, location |-> PRIMARY_LEADER]
    /\ \A n \in Leaders :
          (up[n] /\ PostAnswer(n).code = 503) => current_leader_id[n] = None

\* C4: a backup that is active after the primary's crash holds every task
\* that was in flight on the primary a whole sync interval before the crash
C4_FailoverKeepsOldTasks ==
    \A b \in Backups :
        up[b] /\ is_active_leader[b] /\ ~up[PRIMARY_LEADER] =>
            \A t \in TaskIds : task_age[t] = 2 => t \in DOMAIN tasks[b]

\* C8: on a leader a task's status only moves along pending -> processing,
\* processing -> completed / failed / pending
StatusEdges ==
    {<<PENDING, PROCESSING>>, <<PROCESSING, COMPLETED>>,
     <<PROCESSING, FAILED>>, <<PROCESSING, PENDING>>}

C8_StatusFollowsDag ==
    [][\A n \in Leaders : up[n] /\ up'[n] =>
          \A t \in DOMAIN tasks[n] \cap DOMAIN tasks'[n] :
              tasks'[n][t].status # tasks[n][t].status =>
                  <<tasks[n][t].status, tasks'[n][t].status>> \in StatusEdges]_vars

\* C9: a task whose status is completed or failed is never sent to a worker
C9_NoTerminalTaskSent ==
    [][\A t \in TaskIds : dispatches'[t] # dispatches[t] =>
          \A n \in Leaders : up[n] /\ is_active_leader[n] /\ t \in DOMAIN tasks[n] =>
              tasks[n][t].status \notin {COMPLETED, FAILED}]_vars

\* C10: on the active leader the queue holds x iff task x is pending, once
C10_QueueIsPendingSet ==
    \A n \in Leaders : up[n] /\ is_active_leader[n] =>
        \A x \in TaskIds :
            /\ SeqCount(task_queue[n], x) <= 1
            /\ SeqHas(task_queue[n], x) <=>
                  (x \in DOMAIN tasks[n] /\ tasks[n][x].status = PENDING)

\* C11: in a leader's task table a task has an assigned worker iff its status
\* is processing
C11_WorkerIffProcessing ==
    \A n \in Leaders : up[n] =>
        \A t \in DOMAIN tasks[n] :
            tasks[n][t].assigned_worker # None
                <=> tasks[n][t].status = PROCESSING

\* C12: on the active leader, t is in worker_assignments[w] iff task t is
\* processing and assigned to w
C12_AssignmentsMatchTable ==
    \A n \in Leaders : up[n] /\ is_active_leader[n] =>
        \A w \in Workers, t \in TaskIds :
            SeqHas(worker_assignments[n][w], t)
                <=> (/\ t \in DOMAIN tasks[n]
                     /\ tasks[n][t].assigned_worker = w
                     /\ tasks[n][t].status = PROCESSING)

\* C13: a POST /summarize that the active leader answers without adding a
\* task (its URL belongs to a completed task) returns that task's id
C13_SecondSubmitReturnsFirstId ==
    [][\A n \in Leaders :
          (/\ up[n] /\ is_active_leader[n]
           /\ next_task_id' = next_task_id + 1
           /\ tasks'[n] = tasks[n])
          => /\ response'.task_id \in DOMAIN tasks[n]
             /\ tasks[n][response'.task_id].status = COMPLETED]_vars

\* C14: once a task with URL U has completed on a state manager (U is in
\* completed_urls), no task with URL U is inserted into its table and none is
\* pushed onto its dispatch queue
C14_CompletedUrlNeverReadded ==
    [][\A n \in Leaders : up[n] /\ up'[n] /\ sm_is_leader[n] /\ sm_is_leader'[n] =>
          \A t \in DOMAIN tasks'[n] :
              tasks'[n][t].url \in completed_urls[n] =>
                  /\ t \in DOMAIN tasks[n]
                  /\ SeqCount(task_queue'[n], t) <= SeqCount(task_queue[n], t)]_vars

\* C15: add_task with an id already in the table is a no-op. A step that
\* takes a processing task back to pending is a write to the shared task
\* object followed by add_task of that task, so it leaves the dispatch queue
\* and the version as they were
C15_DuplicateAddIsNoOp ==
    [][\A n \in Leaders : up[n] /\ up'[n] =>
          \A t \in DOMAIN tasks[n] \cap DOMAIN tasks'[n] :
              (tasks[n][t].status = PROCESSING /\ tasks'[n][t].status = PENDING)
                  => /\ task_queue'[n] = task_queue[n]
                     /\ state_version'[n] = state_version[n]]_vars

\* C16: a state manager's version never decreases, and a step that changes
\* its task table or its completed-URL set increases it
C16_VersionCountsChanges ==
    [][\A n \in Leaders : up[n] /\ up'[n] =>
          /\ state_version'[n] >= state_version[n]
          /\ (tasks'[n] # tasks[n] \/ completed_urls'[n] # completed_urls[n])
                => state_version'[n] > state_version[n]]_vars

\* C17: import_state with a state that is not newer than the local one is
\* rejected and leaves the task table as it was, so that a second import of
\* the same exported state changes nothing; here for the crawler fleet's state
\* manager, whose exported state carries no version
C17_RepeatedImportChangesNothing ==
    [][\A n \in Leaders :
          (crawl_imports[n] >= 1 /\ crawl_imports'[n] = crawl_imports[n] + 1)
             => crawl_tasks'[n] = crawl_tasks[n]]_vars

\* the leader a follower's state pull goes to
PullSource(b) == get_leader_by_id(current_leader_id[b])
\* follower b's sync loop has called import_state with the leader's state
Pulled(b) == pulls'[b] # pulls[b]

C19_FailedAfterThreeTimeouts ==
    \A n \in Leaders : \A p \in Tracked(n) :
       /\ silence[n][p] = HEARTBEAT_TIMEOUT * (max_missed_heartbeats - 1)
             => p \in active_nodes[n] /\ last_callback[n][p] # OFFLINE
       /\ p \in failed_nodes[n]
             => silence[n][p] >= HEARTBEAT_TIMEOUT * max_missed_heartbeats

\* C20: for each peer the status callbacks of a node's heartbeat service
\* alternate OFFLINE, ONLINE, OFFLINE, ...: no callback repeats the status of
\* the previous callback for its peer, and the first one says OFFLINE,
\* whatever the order of receive_heartbeat calls and liveness passes
C20_CallbacksAlternate == ~callback_repeated

\* a worker was declared failed, came back with an ONLINE callback, and is two
\* missed passes into its next silence
C20_Witness ==
    \E w \in Workers :
       /\ last_callback[PRIMARY_LEADER][w] = ONLINE
       /\ w \in active_nodes[PRIMARY_LEADER] \cap stale[PRIMARY_LEADER]
       /\ missed_heartbeats[PRIMARY_LEADER][w] = max_missed_heartbeats - 1

\* the heartbeat service of n makes its OFFLINE callback for the primary
PrimaryOffline(n) ==
    /\ last_callback[n][PRIMARY_LEADER] # OFFLINE
    /\ last_callback'[n][PRIMARY_LEADER] = OFFLINE

\* C21: on one backup, two primary OFFLINE events less than the selection
\* cooldown apart arm at most one selection timer: an OFFLINE event inside the
\* cooldown that the last arming began starts no timer
C21_OneTimerPerCooldown ==
    [][\A n \in Backups : up[n] /\ in_cooldown[n] /\ PrimaryOffline(n)
          => selection_timer'[n] = selection_timer[n]]_vars

\* backup 1 has seen the primary fail, return and fail again within one
\* cooldown: it never led nor heard of a leader, its timer has run, and the
\* primary is marked failed again
C21_Witness ==
    /\ up[Backup1] /\ ~is_active_leader[Backup1]
    /\ current_leader_id[Backup1] = None
    /\ in_cooldown[Backup1] /\ ~selection_timer[Backup1]
    /\ primary_leader_failed[Backup1]
    /\ last_callback[Backup1][PRIMARY_LEADER] = OFFLINE

\* crawl task id was sent to worker w, is unfinished, and w has died with the
\* task's thread, while another worker is running and marked online
CrawlTaskLost(id, w) ==
    /\ id \in DOMAIN CrawlTable
    /\ CrawlTable[id].status \notin {COMPLETED, FAILED}
    /\ CrawlTable[id].assigned_worker = w
    /\ ~crawl_up[w] /\ id \notin crawl_running[w]
    /\ \E o \in Workers \ {w} : crawl_up[o] /\ crawl_worker_status[o] = ONLINE

\* no worker is both running and marked online
CrawlNoWorker ==
    ~\E o \in Workers : crawl_up[o] /\ crawl_worker_status[o] = ONLINE

\* C22: a task that is being processed on a worker that then crashes, while
\* the leader stays active and another worker is online, is given to another
\* worker and eventually reaches completed (or failed, if the engine raises),
\* as long as a worker stays online; here for the crawler fleet
C22_LostTaskIsCompleted ==
    \A id \in TaskIds, w \in Workers :
       CrawlTaskLost(id, w)
          ~> \/ id \in DOMAIN CrawlTable
                   /\ CrawlTable[id].status \in {COMPLETED, FAILED}
             \/ CrawlNoWorker

\* crawl task id exists, is pending and was sent to no worker
CrawlUnsent(id) ==
    /\ id \in DOMAIN CrawlTable
    /\ CrawlTable[id].status = PENDING
    /\ CrawlTable[id].assigned_worker = None

\* C23: a task that found no worker online when the leader tried to send it
\* stays pending and is sent by a later dispatch once a worker is online: no
\* such task stays unsent for ever while a worker is online from some point
\* on; here for the crawler fleet
C23_UnsentTaskIsRetried ==
    \A id \in TaskIds :
       ~<>(/\ CrawlUnsent(id) /\ CrawlNoWorker
           /\ <>[](CrawlUnsent(id) /\ ~CrawlNoWorker))

\* the report of worker w about task t is accepted by the active leader
ReportReachesLeader(w, t) ==
    LET n == w_current_leader[w]
    IN up[n] /\ is_active_leader[n] /\ t \in DOMAIN tasks[n]

\* C24: when a worker's engine raises while executing a task and the worker's
\* report reaches the active leader, the task ends in status failed with a
\* result carrying the error string; here for the summarizer fleet
C24_EngineErrorFailsTask ==
    [][\A w \in Workers, t \in TaskIds :
          WorkerFinishes(w, t, FALSE) /\ ReportReachesLeader(w, t)
             => /\ tasks'[w_current_leader[w]][t].status = FAILED
                /\ tasks'[w_current_leader[w]][t].result = ReportResult(FALSE)]_vars

\* the i-th task of the request is completed when the wait returns
CrawlCompleted(i) ==
    LET id == crawl_request.task_ids[i]
    IN id \in DOMAIN CrawlTable /\ CrawlTable[id].status = COMPLETED

\* C25: the /crawl response has exactly one entry per requested URL, in the
\* order of the request's urls, whatever subset of the tasks completed, failed
\* or is unfinished at the deadline; the entry of an unfinished or failed task
\* carries the requested URL with empty markdown and an empty map
C25_OneEntryPerUrlInOrder ==
    [][CrawlRespond
         => /\ Len(crawl_response') = Len(crawl_request.urls)
            /\ \A i \in DOMAIN crawl_request.urls :
                  /\ crawl_response'[i].url = crawl_request.urls[i]
                  /\ ~CrawlCompleted(i)
                       => /\ crawl_response'[i].markdown = ""
                          /\ crawl_response'[i].map = <<>>]_vars

\* a request for two different URLs was answered at the deadline with the
\* first task unfinished and the second completed
C25_Witness ==
    /\ crawl_request.phase = "answered" /\ crawl_request.late
    /\ Len(crawl_request.urls) = 2
    /\ crawl_request.urls[1] # crawl_request.urls[2]
    /\ Len(crawl_response) = 2
    /\ crawl_response[1] = [markdown |-> "", url |-> crawl_request.urls[1],
                            map |-> <<>>]
    /\ crawl_response[2].markdown = CrawlResult
    /\ CrawlTable[crawl_request.task_ids[1]].status = PENDING

\* C26: the /crawl handler always returns: every request the active leader
\* has taken is answered, when all its tasks are completed or failed or else
\* when the 60-second budget has elapsed, even if no task ever finishes
C26_CrawlAlwaysReturns ==
    crawl_request.phase \in {"creating", "waiting"}
       ~> crawl_request.phase = "answered"

\* a request was answered at the deadline although none of its tasks was
\* ever sent to a worker
C26_Witness ==
    /\ crawl_request.phase = "answered" /\ crawl_request.late
    /\ Len(crawl_request.task_ids) = 2
    /\ \A i \in 1..2 : CrawlUnsent(crawl_request.task_ids[i])

\* backup b is a running follower of the running active primary and its
\* version is behind the primary's
FollowerBehind(b) ==
    /\ up[PRIMARY_LEADER] /\ is_active_leader[PRIMARY_LEADER]
    /\ up[b] /\ ~is_active_leader[b]
    /\ state_version[b] < state_version[PRIMARY_LEADER]

\* C27: a follower pulls GET /state from the active leader periodically from
\* boot on and imports it: once the active leader's version exceeds the
\* follower's and stops changing, the follower catches up, so no follower
\* stays behind its active leader for ever
C27_FollowerCatchesUp ==
    \A b \in Backups : ~<>[]FollowerBehind(b)

\* the current_leader_id of node n: the attribute of the leader node or of
\* the worker node that /health, redirects, pulls and reports read
LeaderView(n) ==
    IF n \in Leaders THEN current_leader_id[n] ELSE w_current_leader[n]

\* C28: when a leader or worker receives a heartbeat from a leader-typed peer
\* whose leader_id differs from the receiver's view, the receiver's
\* current_leader_id becomes the reported leader_id
C28_HeartbeatSetsLeaderView ==
    [][\A src \in Leaders, dst \in Leaders \cup Workers :
          Heartbeat(src, dst) /\ hb_leader_id[src] # LeaderView(dst)
             => LeaderView(dst)' = hb_leader_id[src]]_vars

\* backup n has armed its selection timer and the last status change it has
\* seen for the primary since then is ONLINE
PrimaryBackBeforeTimer(n) ==
    /\ up[n] /\ selection_timer[n]
    /\ last_callback[n][PRIMARY_LEADER] = ONLINE

\* C29: if the primary is seen ONLINE again after a backup armed its
\* selection timer and before the timer fires, the timer's run changes no
\* node's is_active_leader, current_leader_id or state manager role (no
\* /leader-change is sent) and leaves the backup's primary_leader_failed and
\* leader_selection_in_progress false
C29_RecoveredPrimaryCancelsElection ==
    [][\A n \in Backups :
          SelectNewLeader(n) /\ PrimaryBackBeforeTimer(n)
             => /\ UNCHANGED <<is_active_leader, current_leader_id,
                               sm_is_leader>>
                /\ ~primary_leader_failed'[n]
                /\ ~leader_selection_in_progress'[n]]_vars

\* backup 1's timer is pending, the primary has been seen ONLINE again, and
\* the other backup still holds the primary for failed
C29_Witness ==
    /\ PrimaryBackBeforeTimer(Backup1)
    /\ ~is_active_leader[Backup1] /\ ~primary_leader_failed[Backup1]
    /\ up[BACKUP_LEADERS[2]] /\ primary_leader_failed[BACKUP_LEADERS[2]]

\* C30: after a leader handles POST /leader-change {leader_id}, its
\* current_leader_id equals the announced id, it is the active leader if and
\* only if the announced id is its own, and the state manager's is_leader
\* flag equals is_active_leader
C30_LeaderChangeSetsRole ==
    [][\A m, id \in Leaders :
          LeaderChange(m, id)
             => /\ current_leader_id'[m] = id
                /\ is_active_leader'[m] = (id = m)
                /\ sm_is_leader'[m] = is_active_leader'[m]]_vars

\* the active primary was told that backup 1 leads: it has recorded the id,
\* stepped down with its state manager and started a sync loop
C30_Witness ==
    /\ up[PRIMARY_LEADER]
    /\ current_leader_id[PRIMARY_LEADER] = Backup1
    /\ ~is_active_leader[PRIMARY_LEADER] /\ ~sm_is_leader[PRIMARY_LEADER]
    /\ state_sync_thread[PRIMARY_LEADER] /\ sync_loops[PRIMARY_LEADER] > 0

\* queue q holds exactly the ids of the pending tasks of table t, each once
ExactlyPending(q, t) ==
    /\ {q[i] : i \in DOMAIN q} = {x \in DOMAIN t : t[x].status = PENDING}
    /\ \A i, j \in DOMAIN q : q[i] = q[j] => i = j

\* C31: right after a follower's state manager is promoted by
\* become_leader(), its dispatch queue contains exactly the ids of the tasks
\* whose status is pending, each once, whatever the queue held before
C31_PromotionRebuildsQueue ==
    [][\A n \in Leaders :
          ~sm_is_leader[n] /\ sm_is_leader'[n] /\ up'[n]
             => ExactlyPending(task_queue'[n], tasks'[n])]_vars

\* backup 2 was promoted and leads with a non-empty queue that holds exactly
\* its pending tasks, next to a task that is not pending
C31_Witness ==
    /\ up[Backup2] /\ is_active_leader[Backup2] /\ sm_is_leader[Backup2]
    /\ task_queue[Backup2] # <<>>
    /\ ExactlyPending(task_queue[Backup2], tasks[Backup2])
    /\ \E t \in DOMAIN tasks[Backup2] : tasks[Backup2][t].status # PENDING

\* the position of worker w in the declaration config.WORKERS
WorkerIndex(w) == CHOOSE i \in 1..NumWorkers : WORKERS[i] = w

\* on leader n worker w is marked online and no online worker has fewer
\* outstanding assignments, nor as many and an earlier declaration
FewestAssignments(n, w) ==
    /\ worker_status[n][w] = ONLINE
    /\ \A o \in Workers \ {w} :
          worker_status[n][o] = ONLINE
             => \/ Len(worker_assignments[n][w]) < Len(worker_assignments[n][o])
                \/ /\ Len(worker_assignments[n][w])
                         = Len(worker_assignments[n][o])
                   /\ WorkerIndex(w) < WorkerIndex(o)

\* C32: the worker chosen for a dispatch is marked online and has the fewest
\* outstanding assignments among the online workers, the earliest-declared
\* one on a tie; when no worker is online none is chosen
C32_FewestAssignmentsChosen ==
    [][\A n \in Leaders, w \in Workers :
          /\ ProcessTaskQueue(n)
          /\ Len(worker_assignments'[n][w]) > Len(worker_assignments[n][w])
          => FewestAssignments(n, w)]_vars

\* both workers are online and each holds a task from the primary: a dispatch
\* went to worker 2, which is declared after worker 1
C32_Witness ==
    /\ worker_status[PRIMARY_LEADER][WORKERS[1]] = ONLINE
    /\ worker_status[PRIMARY_LEADER][WORKERS[2]] = ONLINE
    /\ worker_assignments[PRIMARY_LEADER][WORKERS[1]] # <<>>
    /\ worker_assignments[PRIMARY_LEADER][WORKERS[2]] # <<>>

\* C33: across any sequence of become_leader / become_follower calls a leader
\* node runs at most one state-sync loop at a time (and at most one
\* dispatch/stall loop, which has the same start and stop code)
C33_OneSyncLoop ==
    \A n \in Leaders : up[n] => sync_loops[n] <= 1

\* C34: while a leader has is_active_leader = true, the leader_id it puts in
\* every heartbeat it emits is its own id; heartbeats received from other
\* leaders that name a different leader never change that
C34_ActiveLeaderNamesItself ==
    \A n \in Leaders : up[n] /\ is_active_leader[n] => hb_leader_id[n] = n

\* A failover seen by a worker: the primary, backup 2 and worker 1 run, one
\* leader may crash, backup 1 is started at any moment, and every leader's
\* heartbeat loop also sends to the worker
InitWorkerFailover == InitFleet({PRIMARY_LEADER, Backup2, WORKERS[1]})

NextWorkerFailover ==
    \/ \E n \in Leaders : CrashOnce(n)
    \/ RestartLeader(Backup1)
    \/ \E n, m \in Leaders \cup {WORKERS[1]} : Heartbeat(n, m)
    \/ \E n \in Leaders, p \in Leaders \cup {WORKERS[1]} : Timeout(n, p)
    \/ \E n \in Leaders : CheckForFailures(n)
    \/ \E n \in Leaders : TimerFiresAfterBoot(n)
    \/ \E n \in Leaders : CooldownExpires(n)
    \/ \E b \in Leaders : StateSyncIteration(b)

SpecWorkerFailover == InitWorkerFailover /\ [][NextWorkerFailover]_vars

\* A state pull that overlaps a change of role: the primary and backup 2
\* with clients and /leader-change posts, the sync loop's pass in its two
\* halves
NextSyncRace ==
    \/ \E m, id \in Leaders : LeaderChangeAfterBoot(m, id)
    \/ \E n \in Leaders, u \in Urls : Summarize(n, u)
    \/ \E b \in Leaders : StateSyncIteration(b)
    \/ \E b \in Leaders : SyncRequest(b)
    \/ \E b \in Leaders : SyncImport(b)

SpecSyncRace == InitTakeover /\ [][NextSyncRace]_vars

\* The primary demoted while its monitor loop is in a stall scan: the
\* primary, backup 2 and worker 1 with clients, the primary's dispatch and
\* the two halves of its scan, state pulls and /leader-change posts to the
\* primary
NextDemotedScan ==
    \/ \E id \in Leaders : LeaderChangeAfterBoot(PRIMARY_LEADER, id)
    \/ \E u \in Urls : Summarize(PRIMARY_LEADER, u)
    \/ ProcessTaskQueue(PRIMARY_LEADER)
    \/ Heartbeat(WORKERS[1], PRIMARY_LEADER)
    \/ \E t \in TaskIds : StallScanFinds(PRIMARY_LEADER, t)
    \/ StallScanResets(PRIMARY_LEADER)
    \/ \E b \in Leaders : StateSyncIteration(b)

SpecDemotedScan == InitWorkerFailover /\ [][NextDemotedScan]_vars

\* backup b is running as active leader and worker w is running
LedBy(b, w) == up[b] /\ is_active_leader[b] /\ up[w]

\* C35: after a backup has become active and announced itself, a live worker
\* that has set its current leader to that backup keeps it from then on, as
\* long as the backup leads, so that results go to the active leader
C35_WorkerKeepsNewLeader ==
    [][\A b \in Backups, w \in Workers :
          LedBy(b, w) /\ LedBy(b, w)' /\ w_current_leader[w] = b
             => w_current_leader'[w] = b]_vars

\* some running backup is active leader
SomeBackupLeads == \E x \in Backups : up[x] /\ is_active_leader[x]

\* C36: whenever a live backup has declared the primary OFFLINE and the
\* primary stays down, eventually some backup is active leader: a selection
\* run that ends with no winner, or a failure detected inside the cooldown,
\* does not leave the fleet without an active leader for ever
C36_SomeBackupEventuallyLeads ==
    \A b \in Backups :
       (up[b] /\ primary_leader_failed[b] /\ ~up[PRIMARY_LEADER])
          ~> (~up[b] \/ up[PRIMARY_LEADER] \/ SomeBackupLeads)

\* C37: import_state is never applied to a node's state manager while that
\* node is active leader: a state pull started by the sync loop before
\* promotion does not replace the task table after become_leader() has run
C37_NoImportOnActiveLeader ==
    [][\A b \in Leaders :
          SyncImport(b) /\ is_active_leader[b]
             => UNCHANGED <<tasks, state_version>>]_vars

\* the number of times task id t occurs in the assignment list of worker w
\* on leader n
Occurrences(n, w, t) ==
    Cardinality({i \in DOMAIN worker_assignments[n][w] :
                    worker_assignments[n][w][i] = t})

\* C38: a task id is in the outstanding-assignment list of at most one
\* worker at any time and occurs there at most once
C38_AssignedToOneWorkerOnce ==
    \A n \in Leaders, t \in TaskIds :
       /\ \A w \in Workers : Occurrences(n, w, t) <= 1
       /\ \A w, o \in Workers :
             Occurrences(n, w, t) > 0 /\ Occurrences(n, o, t) > 0 => w = o

\* C39: a leader with is_active_leader = false never pops the dispatch queue,
\* never sends a task and never resets a stalled task: process_task_queue and
\* the stall scan leave its task table, queue and version unchanged
C39_InactiveLeaderLeavesTasks ==
    [][\A n \in Leaders :
          /\ ~is_active_leader[n]
          /\ \/ ProcessTaskQueue(n)
             \/ StallScanResets(n)
             \/ \E t \in TaskIds : CheckStalledTasks(n, t)
          => /\ tasks'[n] = tasks[n]
             /\ task_queue'[n] = task_queue[n]
             /\ state_version'[n] = state_version[n]]_vars

\* the URLs of the tasks of n's table whose status is completed
CompletedTaskUrls(n) ==
    {tasks[n][t].url : t \in {i \in DOMAIN tasks[n] :
                                  tasks[n][i].status = COMPLETED}}

\* C40: each URL in the completed-URL set is the URL of some task in the table
\* whose status is completed
C40_CompletedUrlsHaveCompletedTask ==
    \A n \in Leaders : completed_urls[n] \subseteq CompletedTaskUrls(n)

====
